---------------------------- MODULE Spec2Model ----------------------------
(***************************************************************************)
(* A model of the go-getopt scanner (src/getopt.go, src/shortopts.go).     *)
(*                                                                         *)
(* A Go string is modelled as the sequence of its characters, a character  *)
(* (rune) as a one-character TLA+ string.  The runes 0 and 1 that Opt.C    *)
(* takes for a flag-setting long option and for a non-option reported      *)
(* under ReturnInOrder are the strings Rune0 and Rune1.  Go indices are    *)
(* kept as they are in the source (0-based): At(s, i) reads s[i].          *)
(***************************************************************************)
EXTENDS Integers, Sequences, FiniteSets, TLC

----------------------------------------------------------------------------
(* Go slices and strings *)

At(s, i) == s[i + 1]

\* s[i:]
From(s, i) == SubSeq(s, i + 1, Len(s))

\* s[:i]
Upto(s, i) == SubSeq(s, 1, i)

\* strings.HasPrefix(s, p)
HasPrefix(s, p) == Len(p) <= Len(s) /\ SubSeq(s, 1, Len(p)) = p

\* slices.Index(s, c): the first index of c in s, or -1
Index(s, c) ==
    IF \E i \in 1..Len(s) : s[i] = c
    THEN (CHOOSE i \in 1..Len(s) : s[i] = c /\ \A j \in 1..(i - 1) : s[j] # c) - 1
    ELSE -1

Rune0 == "U+0000"
Rune1 == "U+0001"

----------------------------------------------------------------------------
(* src/getopt.go: constants and types *)

dash == <<"-">>
argumentTerminator == <<"-", "-">>

NoArgument == 0
RequiredArgument == 1
OptionalArgument == 2

RequireOrder == 0
Permute == 1
ReturnInOrder == 2

\* A nil *rune in Option.Flag; a non-nil Flag is the number of a flag variable.
NilFlag == 0

Option(name, hasArg, flag, val) ==
    [Name |-> name, HasArg |-> hasArg, Flag |-> flag, Val |-> val]

\* Opt.Arg: nil, or a string.  ref is the index of the element of Args the
\* pointer points into (&g.Args[i]), and -1 when Arg points at a fresh copy.
NilArg == [nil |-> TRUE, s |-> <<>>, ref |-> -1]
ArgCopy(s) == [nil |-> FALSE, s |-> s, ref |-> -1]
ArgRef(args, i) == [nil |-> FALSE, s |-> At(args, i), ref |-> i]

\* *Opt: nil, or Opt{C, Arg, LongInd}
NilOpt == [nil |-> TRUE, C |-> Rune0, Arg |-> NilArg, LongInd |-> 0]
Opt(c, arg, longInd) == [nil |-> FALSE, C |-> c, Arg |-> arg, LongInd |-> longInd]

----------------------------------------------------------------------------
(* src/unnamed/part_003: the error values *)

NilErr == [nil |-> TRUE, kind |-> "", Option |-> <<>>, prefix |-> <<>>,
           Candidates |-> <<>>]

AmbiguousOptionError(option, candidates, prefix) ==
    [nil |-> FALSE, kind |-> "AmbiguousOptionError", Option |-> option,
     prefix |-> prefix, Candidates |-> candidates]

UnrecognizedOptionError(option, prefix) ==
    [nil |-> FALSE, kind |-> "UnrecognizedOptionError", Option |-> option,
     prefix |-> prefix, Candidates |-> <<>>]

ArgumentNotAllowedError(option, prefix) ==
    [nil |-> FALSE, kind |-> "ArgumentNotAllowedError", Option |-> option,
     prefix |-> prefix, Candidates |-> <<>>]

ArgumentRequiredError(option, prefix) ==
    [nil |-> FALSE, kind |-> "ArgumentRequiredError", Option |-> option,
     prefix |-> prefix, Candidates |-> <<>>]

\* The literal pieces of the format strings.
TxtOption == <<"o", "p", "t", "i", "o", "n", " ", "'">>
TxtAmbiguous == <<"'", " ", "i", "s", " ", "a", "m", "b", "i", "g", "u", "o", "u", "s",
                  ";", " ", "p", "o", "s", "s", "i", "b", "i", "l", "i", "t", "i", "e",
                  "s", ":">>
TxtUnrecognized == <<"u", "n", "r", "e", "c", "o", "g", "n", "i", "z", "e", "d", " ",
                     "o", "p", "t", "i", "o", "n", " ", "'">>
TxtNotAllowed == <<"'", " ", "d", "o", "e", "s", "n", "'", "t", " ", "a", "l", "l", "o",
                   "w", " ", "a", "n", " ", "a", "r", "g", "u", "m", "e", "n", "t">>
TxtRequired == <<"'", " ", "r", "e", "q", "u", "i", "r", "e", "s", " ", "a", "n", " ",
                 "a", "r", "g", "u", "m", "e", "n", "t">>

\* The loop of AmbiguousOptionError.Error: result + " '" + prefix + opt + "'"
RECURSIVE AppendCandidates(_, _, _)
AppendCandidates(result, prefix, cands) ==
    IF cands = <<>> THEN result
    ELSE AppendCandidates(result \o <<" ", "'">> \o prefix \o Head(cands) \o <<"'">>,
                          prefix, Tail(cands))

\* e.Error()
ErrorText(e) ==
    CASE e.kind = "AmbiguousOptionError" ->
            AppendCandidates(TxtOption \o e.prefix \o e.Option \o TxtAmbiguous,
                             e.prefix, e.Candidates)
      [] e.kind = "UnrecognizedOptionError" ->
            TxtUnrecognized \o e.prefix \o e.Option \o <<"'">>
      [] e.kind = "ArgumentNotAllowedError" ->
            TxtOption \o e.prefix \o e.Option \o TxtNotAllowed
      [] e.kind = "ArgumentRequiredError" ->
            TxtOption \o e.prefix \o e.Option \o TxtRequired
      [] OTHER -> <<>>

----------------------------------------------------------------------------
(* src/shortopts.go *)

\* m[c] = d on a Go map
MapPut(m, c, d) == [x \in (DOMAIN m) \cup {c} |-> IF x = c THEN d ELSE m[x]]

\* A variant of parseLoop that registers a colon after a letter as an option
\* character of its own.
RECURSIVE parseLoopRegisteringColon(_, _, _)
parseLoopRegisteringColon(optrunes, i, result) ==
    IF ~(i < Len(optrunes)) THEN result
    ELSE
      LET c  == At(optrunes, i)
          r1 == [result EXCEPT !.Opts = MapPut(result.Opts, c, NoArgument)]
          i1 == i + 1
      IN IF c = "W" /\ i1 < Len(optrunes) /\ At(optrunes, i1) = ";"
         THEN parseLoopRegisteringColon(optrunes, i1 + 1, [r1 EXCEPT !.W = TRUE])
         ELSE
           LET one == i1 < Len(optrunes) /\ At(optrunes, i1) = ":"
               r2  == IF one THEN [r1 EXCEPT !.Opts = MapPut(MapPut(r1.Opts, c, RequiredArgument),
                                                            ":", NoArgument)]
                      ELSE r1
               i2  == IF one THEN i1 + 1 ELSE i1
               two == i2 < Len(optrunes) /\ At(optrunes, i2) = ":"
               r3  == IF two THEN [r2 EXCEPT !.Opts = MapPut(r2.Opts, c, OptionalArgument)]
                      ELSE r2
               i3  == IF two THEN i2 + 1 ELSE i2
           IN parseLoopRegisteringColon(optrunes, i3, r3)

\* A variant of parseLoop that takes a ';' after any letter for the trigger.
RECURSIVE parseLoopAnyTrigger(_, _, _)
parseLoopAnyTrigger(optrunes, i, result) ==
    IF ~(i < Len(optrunes)) THEN result
    ELSE
      LET c  == At(optrunes, i)
          r1 == [result EXCEPT !.Opts = MapPut(result.Opts, c, NoArgument)]
          i1 == i + 1
      IN IF i1 < Len(optrunes) /\ At(optrunes, i1) = ";"
         THEN parseLoopAnyTrigger(optrunes, i1 + 1, [r1 EXCEPT !.W = TRUE])
         ELSE
           LET one == i1 < Len(optrunes) /\ At(optrunes, i1) = ":"
               r2  == IF one THEN [r1 EXCEPT !.Opts = MapPut(r1.Opts, c, RequiredArgument)]
                      ELSE r1
               i2  == IF one THEN i1 + 1 ELSE i1
               two == i2 < Len(optrunes) /\ At(optrunes, i2) = ":"
               r3  == IF two THEN [r2 EXCEPT !.Opts = MapPut(r2.Opts, c, OptionalArgument)]
                      ELSE r2
               i3  == IF two THEN i2 + 1 ELSE i2
           IN parseLoopAnyTrigger(optrunes, i3, r3)

\* A variant of parseLoop that skips a colon where a letter is expected.
RECURSIVE parseLoopSkippingColon(_, _, _)
parseLoopSkippingColon(optrunes, i, result) ==
    IF ~(i < Len(optrunes)) THEN result
    ELSE
      LET c  == At(optrunes, i)
          r1 == [result EXCEPT !.Opts = MapPut(result.Opts, c, NoArgument)]
          i1 == i + 1
      IN IF c = ":" THEN parseLoopSkippingColon(optrunes, i1, result)
         ELSE IF c = "W" /\ i1 < Len(optrunes) /\ At(optrunes, i1) = ";"
         THEN parseLoopSkippingColon(optrunes, i1 + 1, [r1 EXCEPT !.W = TRUE])
         ELSE
           LET one == i1 < Len(optrunes) /\ At(optrunes, i1) = ":"
               r2  == IF one THEN [r1 EXCEPT !.Opts = MapPut(r1.Opts, c, RequiredArgument)]
                      ELSE r1
               i2  == IF one THEN i1 + 1 ELSE i1
               two == i2 < Len(optrunes) /\ At(optrunes, i2) = ":"
               r3  == IF two THEN [r2 EXCEPT !.Opts = MapPut(r2.Opts, c, OptionalArgument)]
                      ELSE r2
               i3  == IF two THEN i2 + 1 ELSE i2
           IN parseLoopSkippingColon(optrunes, i3, r3)

\* The loop of parseShortOptionSpec over optrunes from index i on.
RECURSIVE parseLoop(_, _, _)
parseLoop(optrunes, i, result) ==
    IF ~(i < Len(optrunes)) THEN result
    ELSE
      LET c  == At(optrunes, i)
          r1 == [result EXCEPT !.Opts = MapPut(result.Opts, c, NoArgument)]
          i1 == i + 1
      IN IF c = "W" /\ i1 < Len(optrunes) /\ At(optrunes, i1) = ";"
         THEN parseLoop(optrunes, i1 + 1, [r1 EXCEPT !.W = TRUE])
         ELSE
           LET one == i1 < Len(optrunes) /\ At(optrunes, i1) = ":"
               r2  == IF one THEN [r1 EXCEPT !.Opts = MapPut(r1.Opts, c, RequiredArgument)]
                      ELSE r1
               i2  == IF one THEN i1 + 1 ELSE i1
               two == i2 < Len(optrunes) /\ At(optrunes, i2) = ":"
               r3  == IF two THEN [r2 EXCEPT !.Opts = MapPut(r2.Opts, c, OptionalArgument)]
                      ELSE r2
               i3  == IF two THEN i2 + 1 ELSE i2
           IN parseLoop(optrunes, i3, r3)

\* A variant of parseShortOptionSpec that looks at POSIXLY_CORRECT before it
\* looks at the prefix.
parseShortOptionSpecEnvFirst(options, env) ==
    LET inorderPrefix == <<"-">>
        posixPrefix   == <<"+">>
        ord == IF env \/ HasPrefix(options, posixPrefix) THEN RequireOrder
               ELSE IF HasPrefix(options, inorderPrefix) THEN ReturnInOrder
               ELSE Permute
        o1  == IF HasPrefix(options, posixPrefix) \/ HasPrefix(options, inorderPrefix)
               THEN From(options, 1) ELSE options
        o2  == IF HasPrefix(o1, <<":">>) THEN From(o1, 1) ELSE o1
    IN parseLoop(o2, 0, [Ordering |-> ord, W |-> FALSE, Opts |-> <<>>])

\* parseShortOptionSpec(options); env is the result of os.LookupEnv("POSIXLY_CORRECT")
parseShortOptionSpec(options, env) ==
    LET inorderPrefix == <<"-">>
        posixPrefix   == <<"+">>
        ord == IF HasPrefix(options, inorderPrefix) THEN ReturnInOrder
               ELSE IF env \/ HasPrefix(options, posixPrefix) THEN RequireOrder
               ELSE Permute
        o1  == IF HasPrefix(options, posixPrefix) \/ HasPrefix(options, inorderPrefix)
               THEN From(options, 1) ELSE options
        o2  == IF HasPrefix(o1, <<":">>) THEN From(o1, 1) ELSE o1
    IN parseLoop(o2, 0, [Ordering |-> ord, W |-> FALSE, Opts |-> <<>>])

\* inf.HasOpt(c)
HasOpt(inf, c) == c \in DOMAIN inf.Opts

----------------------------------------------------------------------------
(* src/getopt.go: the Getopt struct *)

(***************************************************************************)
(* A scanner g is a record of the fields of the Getopt struct: Args,       *)
(* shortOptions, longOptions, optind, optreset, nextChar, firstNonopt and  *)
(* lastNonopt.  Two more fields stand for memory outside the struct:       *)
(*   flags  the rune variables the Flag pointers of longOptions point at;  *)
(*   src    history: src[i] is the index that the element now at Args[i]   *)
(*          had in the vector handed to Reset.  No guard reads it.         *)
(***************************************************************************)

\* The outcome of one call: the scanner after it and the pair (*Opt, error).
\* panic marks a run-time panic (index or slice bounds out of range).
Result(g, opt, err) == [g |-> g, opt |-> opt, err |-> err, panic |-> FALSE]
Panic(g) == [g |-> g, opt |-> NilOpt, err |-> NilErr, panic |-> TRUE]

\* A variant of swapLoop that copies args[b+i] to args[a+i] without saving
\* the element it overwrites.
RECURSIVE swapLoopOverwriting(_, _, _, _, _)
swapLoopOverwriting(args, a, b, i, length) ==
    IF ~(i < length) THEN args
    ELSE swapLoopOverwriting([args EXCEPT ![a + i + 1] = At(args, b + i)],
                             a, b, i + 1, length)

\* The inner loops of exchange: swap args[a+i] and args[b+i] for i < length.
RECURSIVE swapLoop(_, _, _, _, _)
swapLoop(args, a, b, i, length) ==
    IF ~(i < length) THEN args
    ELSE swapLoop([args EXCEPT ![a + i + 1] = At(args, b + i),
                               ![b + i + 1] = At(args, a + i)],
                  a, b, i + 1, length)

\* A variant of exchangeLoop that swaps the shorter segment once and stops,
\* leaving the two parts of the longer segment as they are.
exchangeLoopSinglePass(args, bottom, middle, top) ==
    IF ~(top > middle /\ middle > bottom) THEN args
    ELSE IF top - middle > middle - bottom
    THEN swapLoop(args, bottom, top - (middle - bottom), 0, middle - bottom)
    ELSE swapLoop(args, bottom, middle, 0, top - middle)

\* The outer loop of exchange.
RECURSIVE exchangeLoop(_, _, _, _)
exchangeLoop(args, bottom, middle, top) ==
    IF ~(top > middle /\ middle > bottom) THEN args
    ELSE IF top - middle > middle - bottom
    THEN \* Bottom segment is the short one.
         LET length == middle - bottom
         IN exchangeLoop(swapLoop(args, bottom, top - (middle - bottom), 0, length),
                         bottom, middle, top - length)
    ELSE \* Top segment is the short one.
         LET length == top - middle
         IN exchangeLoop(swapLoop(args, bottom, middle, 0, length),
                         bottom + length, middle, top)

\* g.exchange()
exchange(g) ==
    [g EXCEPT !.Args = exchangeLoop(g.Args, g.firstNonopt, g.lastNonopt, g.optind),
              !.src = exchangeLoop(g.src, g.firstNonopt, g.lastNonopt, g.optind),
              !.firstNonopt = g.firstNonopt + (g.optind - g.lastNonopt),
              !.lastNonopt = g.optind]

\* nonoption(s)
nonoption(s) == ~HasPrefix(s, dash) \/ Len(s) = 1

----------------------------------------------------------------------------
(* src/getopt.go: processLongOption *)

\* A variant of exactIndex that finds no exact match: every name is resolved
\* as an abbreviation.
exactIndexSkipped(longOptions, targetName) == -1

\* slices.IndexFunc(longOptions, name == p.Name)
exactIndex(longOptions, targetName) ==
    IF \E i \in 1..Len(longOptions) : longOptions[i].Name = targetName
    THEN (CHOOSE i \in 1..Len(longOptions) :
            /\ longOptions[i].Name = targetName
            /\ \A j \in 1..(i - 1) : longOptions[j].Name # targetName) - 1
    ELSE -1

\* A variant of abbrevLoop that lists every entry the name is a prefix of.
RECURSIVE abbrevLoopListingAll(_, _, _, _, _)
abbrevLoopListingAll(longOptions, name, longOnly, i, st) ==
    IF ~(i < Len(longOptions)) THEN st
    ELSE
      LET p == At(longOptions, i)
      IN IF HasPrefix(p.Name, name)
         THEN abbrevLoopListingAll(longOptions, name, longOnly, i + 1,
                                   [index |-> IF st.index = -1 THEN i ELSE st.index,
                                    Candidates |-> Append(st.Candidates, p.Name)])
         ELSE abbrevLoopListingAll(longOptions, name, longOnly, i + 1, st)

\* The abbreviation loop: st = [index, Candidates] where index is the index
\* of the first nonexact match (pfound) or -1.
RECURSIVE abbrevLoop(_, _, _, _, _)
abbrevLoop(longOptions, name, longOnly, i, st) ==
    IF ~(i < Len(longOptions)) THEN st
    ELSE
      LET p == At(longOptions, i)
      IN IF HasPrefix(p.Name, name)
         THEN IF st.index = -1
              THEN \* First nonexact match found.
                   abbrevLoop(longOptions, name, longOnly, i + 1,
                              [index |-> i, Candidates |-> Append(st.Candidates, p.Name)])
              ELSE LET pfound == At(longOptions, st.index)
                   IN IF \/ longOnly
                         \/ pfound.HasArg # p.HasArg
                         \/ pfound.Flag # p.Flag
                         \/ pfound.Val # p.Val
                      THEN \* Second or later nonexact match found.
                           abbrevLoop(longOptions, name, longOnly, i + 1,
                                      [st EXCEPT !.Candidates = Append(@, p.Name)])
                      ELSE abbrevLoop(longOptions, name, longOnly, i + 1, st)
         ELSE abbrevLoop(longOptions, name, longOnly, i + 1, st)

\* A variant of consumeLongOption that binds the text from the '=' on, the
\* '=' included.
consumeLongOptionKeepingEq(g0, optionIndex, nameend, prefix) ==
    LET pfound == At(g0.longOptions, optionIndex)
        g1 == [g0 EXCEPT !.optind = @ + 1, !.nextChar = <<>>]
        finish(g, arg) ==
            IF pfound.Flag # NilFlag
            THEN Result([g EXCEPT !.flags[pfound.Flag] = pfound.Val],
                        Opt(Rune0, arg, optionIndex), NilErr)
            ELSE Result(g, Opt(pfound.Val, arg, optionIndex), NilErr)
    IN IF Len(nameend) # 0
       THEN IF pfound.HasArg = NoArgument
            THEN Result(g1, NilOpt, ArgumentNotAllowedError(pfound.Name, prefix))
            ELSE finish(g1, ArgCopy(nameend))
       ELSE IF pfound.HasArg = RequiredArgument
       THEN IF g1.optind >= Len(g1.Args)
            THEN Result(g1, NilOpt, ArgumentRequiredError(pfound.Name, prefix))
            ELSE finish([g1 EXCEPT !.optind = @ + 1], ArgRef(g1.Args, g1.optind))
       ELSE finish(g1, NilArg)

\* A variant of consumeLongOption that assigns *Flag before it looks at the
\* argument.
consumeLongOptionFlagFirst(g0, optionIndex, nameend, prefix) ==
    LET pfound == At(g0.longOptions, optionIndex)
        g1 == IF pfound.Flag # NilFlag
              THEN [g0 EXCEPT !.optind = @ + 1, !.nextChar = <<>>,
                              !.flags[pfound.Flag] = pfound.Val]
              ELSE [g0 EXCEPT !.optind = @ + 1, !.nextChar = <<>>]
        finish(g, arg) ==
            IF pfound.Flag # NilFlag
            THEN Result([g EXCEPT !.flags[pfound.Flag] = pfound.Val],
                        Opt(Rune0, arg, optionIndex), NilErr)
            ELSE Result(g, Opt(pfound.Val, arg, optionIndex), NilErr)
    IN IF Len(nameend) # 0
       THEN IF pfound.HasArg = NoArgument
            THEN Result(g1, NilOpt, ArgumentNotAllowedError(pfound.Name, prefix))
            ELSE finish(g1, ArgCopy(From(nameend, 1)))
       ELSE IF pfound.HasArg = RequiredArgument
       THEN IF g1.optind >= Len(g1.Args)
            THEN Result(g1, NilOpt, ArgumentRequiredError(pfound.Name, prefix))
            ELSE finish([g1 EXCEPT !.optind = @ + 1], ArgRef(g1.Args, g1.optind))
       ELSE finish(g1, NilArg)

\* A variant of consumeLongOption that reports Val in C even when it has
\* assigned it through Flag.
consumeLongOptionReportingVal(g0, optionIndex, nameend, prefix) ==
    LET pfound == At(g0.longOptions, optionIndex)
        g1 == [g0 EXCEPT !.optind = @ + 1, !.nextChar = <<>>]
        finish(g, arg) ==
            IF pfound.Flag # NilFlag
            THEN Result([g EXCEPT !.flags[pfound.Flag] = pfound.Val],
                        Opt(pfound.Val, arg, optionIndex), NilErr)
            ELSE Result(g, Opt(pfound.Val, arg, optionIndex), NilErr)
    IN IF Len(nameend) # 0
       THEN IF pfound.HasArg = NoArgument
            THEN Result(g1, NilOpt, ArgumentNotAllowedError(pfound.Name, prefix))
            ELSE finish(g1, ArgCopy(From(nameend, 1)))
       ELSE IF pfound.HasArg = RequiredArgument
       THEN IF g1.optind >= Len(g1.Args)
            THEN Result(g1, NilOpt, ArgumentRequiredError(pfound.Name, prefix))
            ELSE finish([g1 EXCEPT !.optind = @ + 1], ArgRef(g1.Args, g1.optind))
       ELSE finish(g1, NilArg)

\* A variant of consumeLongOption that takes the step over the option
\* element back when the required argument is missing.
consumeLongOptionRollingBack(g0, optionIndex, nameend, prefix) ==
    LET pfound == At(g0.longOptions, optionIndex)
        g1 == [g0 EXCEPT !.optind = @ + 1, !.nextChar = <<>>]
        finish(g, arg) ==
            IF pfound.Flag # NilFlag
            THEN Result([g EXCEPT !.flags[pfound.Flag] = pfound.Val],
                        Opt(Rune0, arg, optionIndex), NilErr)
            ELSE Result(g, Opt(pfound.Val, arg, optionIndex), NilErr)
    IN IF Len(nameend) # 0
       THEN IF pfound.HasArg = NoArgument
            THEN Result(g1, NilOpt, ArgumentNotAllowedError(pfound.Name, prefix))
            ELSE finish(g1, ArgCopy(From(nameend, 1)))
       ELSE IF pfound.HasArg = RequiredArgument
       THEN IF g1.optind >= Len(g1.Args)
            THEN Result([g1 EXCEPT !.optind = @ - 1], NilOpt,
                        ArgumentRequiredError(pfound.Name, prefix))
            ELSE finish([g1 EXCEPT !.optind = @ + 1], ArgRef(g1.Args, g1.optind))
       ELSE finish(g1, NilArg)

\* The tail of processLongOption: a matching long option was found.
consumeLongOption(g0, optionIndex, nameend, prefix) ==
    LET pfound == At(g0.longOptions, optionIndex)
        g1 == [g0 EXCEPT !.optind = @ + 1, !.nextChar = <<>>]
        finish(g, arg) ==
            IF pfound.Flag # NilFlag
            THEN Result([g EXCEPT !.flags[pfound.Flag] = pfound.Val],
                        Opt(Rune0, arg, optionIndex), NilErr)
            ELSE Result(g, Opt(pfound.Val, arg, optionIndex), NilErr)
    IN IF Len(nameend) # 0
       THEN IF pfound.HasArg = NoArgument
            THEN Result(g1, NilOpt, ArgumentNotAllowedError(pfound.Name, prefix))
            ELSE finish(g1, ArgCopy(From(nameend, 1)))
       ELSE IF pfound.HasArg = RequiredArgument
       THEN IF g1.optind >= Len(g1.Args)
            THEN Result(g1, NilOpt, ArgumentRequiredError(pfound.Name, prefix))
            ELSE finish([g1 EXCEPT !.optind = @ + 1], ArgRef(g1.Args, g1.optind))
       ELSE finish(g1, NilArg)

\* g.processLongOption(longOnly, prefix).  (nil, nil) is the result
\* Result(g, NilOpt, NilErr) with g unchanged.
processLongOption(g, longOnly, prefix) ==
    LET idx     == Index(g.nextChar, "=")
        namelen == IF idx = -1 THEN Len(g.nextChar) ELSE idx
        nameend == From(g.nextChar, namelen)
        targetName == Upto(g.nextChar, namelen)
        exact   == exactIndex(g.longOptions, targetName)
        st      == IF exact # -1 THEN [index |-> exact, Candidates |-> <<>>]
                   ELSE abbrevLoop(g.longOptions, targetName, longOnly, 0,
                                   [index |-> -1, Candidates |-> <<>>])
        skipped == [g EXCEPT !.nextChar = <<>>, !.optind = @ + 1]
    IN IF Len(st.Candidates) > 1
       THEN Result(skipped, NilOpt,
                   AmbiguousOptionError(g.nextChar, st.Candidates, prefix))
       ELSE IF st.index = -1
       THEN IF \/ ~longOnly
               \/ At(At(g.Args, g.optind), 1) = "-"
               \/ ~HasOpt(g.shortOptions, At(g.nextChar, 0))
            THEN Result(skipped, NilOpt, UnrecognizedOptionError(g.nextChar, prefix))
            ELSE Result(g, NilOpt, NilErr)
       ELSE consumeLongOption(g, st.index, nameend, prefix)

----------------------------------------------------------------------------
(* src/getopt.go: getoptInternalR *)

\* A variant of unrecognizedOption that gives up the rest of the element.
unrecognizedOptionDroppingRest(g, c) ==
    Result([g EXCEPT !.nextChar = <<>>,
                     !.optind = IF Len(g.nextChar) = 0 THEN @ ELSE @ + 1],
           NilOpt, UnrecognizedOptionError(<<c>>, dash))

\* A variant of unrecognizedOption that leaves the character c where it was.
unrecognizedOptionPutBack(g, c) ==
    Result([g EXCEPT !.nextChar = <<c>> \o @,
                     !.optind = IF Len(g.nextChar) = 0 THEN @ - 1 ELSE @],
           NilOpt, UnrecognizedOptionError(<<c>>, dash))

\* "if !g.shortOptions.HasOpt(c)": the character c, already taken off
\* g.nextChar, is not an option character.
unrecognizedOption(g, c) ==
    Result(g, NilOpt, UnrecognizedOptionError(<<c>>, dash))

\* A variant of optionalArgument that takes the next element as the argument
\* when the element has no text left and a non-option follows.
optionalArgumentLookingAhead(g, c) ==
    IF Len(g.nextChar) # 0
    THEN Result([g EXCEPT !.optind = @ + 1, !.nextChar = <<>>],
                Opt(c, ArgCopy(g.nextChar), 0), NilErr)
    ELSE IF g.optind < Len(g.Args) /\ At(At(g.Args, g.optind), 0) # "-"
    THEN Result([g EXCEPT !.optind = @ + 1, !.nextChar = <<>>],
                Opt(c, ArgRef(g.Args, g.optind), 0), NilErr)
    ELSE Result([g EXCEPT !.nextChar = <<>>], Opt(c, NilArg, 0), NilErr)

\* "case OptionalArgument" for the option character c.
optionalArgument(g, c) ==
    IF Len(g.nextChar) # 0
    THEN Result([g EXCEPT !.optind = @ + 1, !.nextChar = <<>>],
                Opt(c, ArgCopy(g.nextChar), 0), NilErr)
    ELSE Result([g EXCEPT !.nextChar = <<>>], Opt(c, NilArg, 0), NilErr)

\* A variant of requiredArgument that does not take a next element that
\* starts with '-' as the argument.
requiredArgumentRefusingDash(g, c) ==
    IF Len(g.nextChar) # 0
    THEN Result([g EXCEPT !.optind = @ + 1, !.nextChar = <<>>],
                Opt(c, ArgCopy(g.nextChar), 0), NilErr)
    ELSE IF g.optind = Len(g.Args) \/ At(At(g.Args, g.optind), 0) = "-"
    THEN Result(g, NilOpt, ArgumentRequiredError(<<c>>, dash))
    ELSE Result([g EXCEPT !.optind = @ + 1, !.nextChar = <<>>],
                Opt(c, ArgRef(g.Args, g.optind), 0), NilErr)

\* A variant of requiredArgument that returns the option without an argument
\* when no element is left.
requiredArgumentNilAtEnd(g, c) ==
    IF Len(g.nextChar) # 0
    THEN Result([g EXCEPT !.optind = @ + 1, !.nextChar = <<>>],
                Opt(c, ArgCopy(g.nextChar), 0), NilErr)
    ELSE IF g.optind = Len(g.Args)
    THEN Result(g, Opt(c, NilArg, 0), NilErr)
    ELSE Result([g EXCEPT !.optind = @ + 1, !.nextChar = <<>>],
                Opt(c, ArgRef(g.Args, g.optind), 0), NilErr)

\* "case RequiredArgument" for the option character c.
requiredArgument(g, c) ==
    IF Len(g.nextChar) # 0
    THEN Result([g EXCEPT !.optind = @ + 1, !.nextChar = <<>>],
                Opt(c, ArgCopy(g.nextChar), 0), NilErr)
    ELSE IF g.optind = Len(g.Args)
    THEN Result(g, NilOpt, ArgumentRequiredError(<<c>>, dash))
    ELSE Result([g EXCEPT !.optind = @ + 1, !.nextChar = <<>>],
                Opt(c, ArgRef(g.Args, g.optind), 0), NilErr)

\* A variant of convenienceW that takes the next element as the long option
\* whether or not text follows the W.
convenienceWTakingNext(g, c) ==
    IF g.optind = Len(g.Args)
    THEN Result(g, NilOpt, ArgumentRequiredError(<<c>>, dash))
    ELSE processLongOption([g EXCEPT !.nextChar = At(g.Args, g.optind)],
                           FALSE, <<"-", "W", " ">>)

\* "Convenience. Treat POSIX -W foo same as long option --foo": c is the W
\* already taken off g.nextChar.
convenienceW(g, c) ==
    IF Len(g.nextChar) = 0
    THEN IF g.optind = Len(g.Args)
         THEN Result(g, NilOpt, ArgumentRequiredError(<<c>>, dash))
         ELSE processLongOption([g EXCEPT !.nextChar = At(g.Args, g.optind)],
                                FALSE, <<"-", "W", " ">>)
    ELSE processLongOption(g, FALSE, <<"-", "W", " ">>)

\* "Look at and handle the next short option-character."
shortOption(g0) ==
    IF Len(g0.nextChar) = 0 THEN Panic(g0)      \* g.nextChar[0] out of range
    ELSE
      LET c  == At(g0.nextChar, 0)
          g1 == [g0 EXCEPT !.nextChar = From(g0.nextChar, 1)]
          \* Increment 'optind' when we start to process its last character.
          g2 == IF Len(g1.nextChar) = 0 THEN [g1 EXCEPT !.optind = @ + 1] ELSE g1
      IN IF ~HasOpt(g2.shortOptions, c)
         THEN unrecognizedOption(g2, c)
         ELSE IF c = "W" /\ g2.shortOptions.W /\ Len(g2.longOptions) > 0
         THEN convenienceW(g2, c)
         ELSE
           LET d == g2.shortOptions.Opts[c]
           IN CASE d = OptionalArgument -> optionalArgument(g2, c)
                [] d = RequiredArgument -> requiredArgument(g2, c)
                [] OTHER -> Result(g2, Opt(c, NilArg, 0), NilErr)

\* "It is not a long option. Skip the initial punctuation.", then the
\* short option-character.
skipPunctuation(g) ==
    IF g.optind >= Len(g.Args) THEN Panic(g)            \* g.Args[g.optind]
    ELSE IF Len(At(g.Args, g.optind)) < 1 THEN Panic(g) \* [1:] of an empty string
    ELSE shortOption([g EXCEPT !.nextChar = From(At(g.Args, g.optind), 1)])

\* "We have found another option-ARGV-element. Check whether it might be a
\* long option."
optionElement(g, longOnly) ==
    LET elem == At(g.Args, g.optind)
    IN IF Len(g.longOptions) > 0
       THEN IF At(elem, 1) = "-"
            THEN processLongOption([g EXCEPT !.nextChar = From(elem, Len(argumentTerminator))],
                                   longOnly, argumentTerminator)
            ELSE IF longOnly /\ (Len(elem) > 1 \/ ~HasOpt(g.shortOptions, At(elem, 1)))
            THEN LET r == processLongOption([g EXCEPT !.nextChar = From(elem, 1)],
                                            longOnly, dash)
                 IN IF ~r.opt.nil THEN r
                    ELSE skipPunctuation(r.g)   \* err is dropped
            ELSE skipPunctuation(g)
       ELSE skipPunctuation(g)

\* A variant of clampNonopts that leaves both indices as they are.
clampNonoptsSkipped(g) == g

\* A variant of clampNonopts that leaves lastNonopt as it is.
clampNonoptsFirstOnly(g) ==
    IF g.firstNonopt > g.optind THEN [g EXCEPT !.firstNonopt = g.optind] ELSE g

\* "Give FIRST_NONOPT & LAST_NONOPT rational values ..."
clampNonopts(g) ==
    LET g1 == IF g.lastNonopt > g.optind THEN [g EXCEPT !.lastNonopt = g.optind] ELSE g
    IN IF g1.firstNonopt > g1.optind THEN [g1 EXCEPT !.firstNonopt = g1.optind] ELSE g1

\* The loop "Skip any additional non-options": the optind it stops at.
RECURSIVE skipNonoptions(_, _)
skipNonoptions(args, optind) ==
    IF optind < Len(args) /\ nonoption(At(args, optind))
    THEN skipNonoptions(args, optind + 1)
    ELSE optind

\* A variant of permuteStep that never exchanges: it skips the non-options
\* and leaves them where they are.
permuteStepWithoutExchange(g) ==
    LET g1 == IF g.lastNonopt # g.optind
              THEN [g EXCEPT !.firstNonopt = g.optind]
              ELSE g
        g2 == [g1 EXCEPT !.optind = skipNonoptions(g1.Args, g1.optind)]
    IN [g2 EXCEPT !.lastNonopt = g2.optind]

\* The block under "if g.shortOptions.Ordering == Permute".
permuteStep(g) ==
    LET g1 == IF g.firstNonopt # g.lastNonopt /\ g.lastNonopt # g.optind
              THEN exchange(g)
              ELSE IF g.lastNonopt # g.optind
              THEN [g EXCEPT !.firstNonopt = g.optind]
              ELSE g
        g2 == [g1 EXCEPT !.optind = skipNonoptions(g1.Args, g1.optind)]
    IN [g2 EXCEPT !.lastNonopt = g2.optind]

\* A variant of terminatorStep that steps over "--" and lets the scan go on
\* with the element after it.
terminatorStepSkipping(g) == [g EXCEPT !.optind = @ + 1]

\* A variant of terminatorStep that ends the scan without moving the skipped
\* non-options behind the "--".
terminatorStepWithoutExchange(g) ==
    LET g1 == [g EXCEPT !.optind = @ + 1]
        g2 == IF g1.firstNonopt = g1.lastNonopt
              THEN [g1 EXCEPT !.firstNonopt = g1.optind]
              ELSE g1
    IN [g2 EXCEPT !.lastNonopt = Len(g2.Args), !.optind = Len(g2.Args)]

\* The block under "The special ARGV-element '--' means premature end of
\* options."
terminatorStep(g) ==
    LET g1 == [g EXCEPT !.optind = @ + 1]
        g2 == IF g1.firstNonopt # g1.lastNonopt /\ g1.lastNonopt # g1.optind
              THEN exchange(g1)
              ELSE IF g1.firstNonopt = g1.lastNonopt
              THEN [g1 EXCEPT !.firstNonopt = g1.optind]
              ELSE g1
    IN [g2 EXCEPT !.lastNonopt = Len(g2.Args), !.optind = Len(g2.Args)]

\* A variant of nonoptionElement that returns every non-option as the
\* argument of the option 1, whatever the ordering.
nonoptionElementReturned(g) ==
    Result([g EXCEPT !.optind = @ + 1],
           Opt(Rune1, ArgRef(g.Args, g.optind), 0), NilErr)

\* A variant of nonoptionElement that stops at every non-option, whatever the
\* ordering.
nonoptionElementStopping(g) == Result(g, NilOpt, NilErr)

\* "If we have come to a non-option and did not permute it, either stop the
\* scan or describe it to the caller and pass it by."
nonoptionElement(g) ==
    IF g.shortOptions.Ordering = RequireOrder
    THEN Result(g, NilOpt, NilErr)
    ELSE Result([g EXCEPT !.optind = @ + 1],
                Opt(Rune1, ArgRef(g.Args, g.optind), 0), NilErr)

\* A variant of advance that skips and moves the non-options whatever the
\* ordering.
advancePermuting(g0, longOnly) ==
    LET g1 == clampNonopts(g0)
        g2 == permuteStep(g1)
        g3 == IF g2.optind # Len(g2.Args) /\ At(g2.Args, g2.optind) = argumentTerminator
              THEN terminatorStep(g2)
              ELSE g2
    IN IF g3.optind = Len(g3.Args)
       THEN Result(IF g3.firstNonopt # g3.lastNonopt
                   THEN [g3 EXCEPT !.optind = g3.firstNonopt]
                   ELSE g3,
                   NilOpt, NilErr)
       ELSE IF nonoption(At(g3.Args, g3.optind))
       THEN nonoptionElement(g3)
       ELSE optionElement(g3, longOnly)

\* A variant of advance that returns an element "-" as the option '-' when
\* '-' is an option character of the short spec.
advanceDashOption(g0, longOnly) ==
    LET g1 == clampNonopts(g0)
        g2 == IF g1.shortOptions.Ordering = Permute THEN permuteStep(g1) ELSE g1
        g3 == IF g2.optind # Len(g2.Args) /\ At(g2.Args, g2.optind) = argumentTerminator
              THEN terminatorStep(g2)
              ELSE g2
    IN IF g3.optind = Len(g3.Args)
       THEN Result(IF g3.firstNonopt # g3.lastNonopt
                   THEN [g3 EXCEPT !.optind = g3.firstNonopt]
                   ELSE g3,
                   NilOpt, NilErr)
       ELSE IF At(g3.Args, g3.optind) = dash /\ HasOpt(g3.shortOptions, "-")
       THEN Result([g3 EXCEPT !.optind = @ + 1], Opt("-", NilArg, 0), NilErr)
       ELSE IF nonoption(At(g3.Args, g3.optind))
       THEN nonoptionElement(g3)
       ELSE optionElement(g3, longOnly)

\* "Advance to the next ARGV-element."
advance(g0, longOnly) ==
    LET g1 == clampNonopts(g0)
        g2 == IF g1.shortOptions.Ordering = Permute THEN permuteStep(g1) ELSE g1
        g3 == IF g2.optind # Len(g2.Args) /\ At(g2.Args, g2.optind) = argumentTerminator
              THEN terminatorStep(g2)
              ELSE g2
    IN IF g3.optind = Len(g3.Args)
       THEN Result(IF g3.firstNonopt # g3.lastNonopt
                   THEN [g3 EXCEPT !.optind = g3.firstNonopt]
                   ELSE g3,
                   NilOpt, NilErr)
       ELSE IF nonoption(At(g3.Args, g3.optind))
       THEN nonoptionElement(g3)
       ELSE optionElement(g3, longOnly)

\* g.getoptInternalR(longOnly)
getoptInternalR(g, longOnly) ==
    IF Len(g.Args) < 1 THEN Result(g, NilOpt, NilErr)
    ELSE IF Len(g.nextChar) = 0 THEN advance(g, longOnly)
    ELSE shortOption(g)

\* g.getoptInternal(longOnly)
getoptInternal(g, longOnly) == getoptInternalR(g, longOnly)

\* A variant of Reset that leaves the scan position inside the element
\* alone.
ResetGKeepingNextChar(g, args, opts, env) ==
    [g EXCEPT !.Args = args,
              !.src = [i \in 1..Len(args) |-> i - 1],
              !.shortOptions = parseShortOptionSpec(opts, env),
              !.longOptions = <<>>,
              !.optind = 1,
              !.optreset = TRUE,
              !.firstNonopt = 1,
              !.lastNonopt = 1]

\* A variant of Reset that leaves the long options alone.
ResetGKeepingLongOptions(g, args, opts, env) ==
    [g EXCEPT !.Args = args,
              !.src = [i \in 1..Len(args) |-> i - 1],
              !.shortOptions = parseShortOptionSpec(opts, env),
              !.optind = 1,
              !.optreset = TRUE,
              !.nextChar = <<>>,
              !.firstNonopt = 1,
              !.lastNonopt = 1]

\* g.Reset(args, opts), with env the presence of POSIXLY_CORRECT in the
\* environment at the time of the call
ResetG(g, args, opts, env) ==
    [g EXCEPT !.Args = args,
              !.src = [i \in 1..Len(args) |-> i - 1],
              !.shortOptions = parseShortOptionSpec(opts, env),
              !.longOptions = <<>>,
              !.optind = 1,
              !.optreset = TRUE,
              !.nextChar = <<>>,
              !.firstNonopt = 1,
              !.lastNonopt = 1]

\* g.ResetLong(args, opts, longOptions)
ResetLongG(g, args, opts, longOptions, env) ==
    [ResetG(g, args, opts, env) EXCEPT !.longOptions = longOptions]

\* var g Getopt: the zero value of the struct
ZeroGetopt(flags) ==
    [Args |-> <<>>, src |-> <<>>,
     shortOptions |-> [Ordering |-> RequireOrder, W |-> FALSE, Opts |-> <<>>],
     longOptions |-> <<>>, optind |-> 0, optreset |-> FALSE, nextChar |-> <<>>,
     firstNonopt |-> 0, lastNonopt |-> 0, flags |-> flags]

\* New(args, opts)
New(args, opts, env, flags) == ResetG(ZeroGetopt(flags), args, opts, env)

\* NewLong(args, opts, longOptions)
NewLong(args, opts, longOptions, env, flags) ==
    ResetLongG(ZeroGetopt(flags), args, opts, longOptions, env)

----------------------------------------------------------------------------
(* The state *)

VARIABLES
    Args,           \* g.Args
    shortOptions,   \* g.shortOptions
    longOptions,    \* g.longOptions
    optind,         \* g.optind
    optreset,       \* g.optreset
    nextChar,       \* g.nextChar
    firstNonopt,    \* g.firstNonopt
    lastNonopt,     \* g.lastNonopt
    flags,          \* the rune variables that Option.Flag pointers point at
    env,            \* whether POSIXLY_CORRECT is set in the environment
    opts,           \* history: the short-option spec handed to New/Reset
    src,            \* history: the original index of each element of Args
    orig,           \* history: the vector handed to New/Reset
    results,        \* history: the outcome of each call since New/Reset
    pre,            \* history: the scanner as it was before the last call
    longOnlyUsed,   \* history: GetoptLongOnly was called since New/Reset
    iter,           \* an iterator made by Iterate/IterateLong
    other,          \* a second Getopt instance
    reset           \* history: the state a recorded Reset/ResetLong was called in

vars == <<Args, shortOptions, longOptions, optind, optreset, nextChar, firstNonopt,
          lastNonopt, flags, env, opts, src, orig, results, pre, longOnlyUsed, iter,
          other, reset>>

\* The scanner made of the current values of the variables.
G == [Args |-> Args, src |-> src, shortOptions |-> shortOptions,
      longOptions |-> longOptions, optind |-> optind, optreset |-> optreset,
      nextChar |-> nextChar, firstNonopt |-> firstNonopt, lastNonopt |-> lastNonopt,
      flags |-> flags]

\* The variables take the fields of the scanner g.
SetG(g) ==
    /\ Args' = g.Args
    /\ src' = g.src
    /\ shortOptions' = g.shortOptions
    /\ longOptions' = g.longOptions
    /\ optind' = g.optind
    /\ optreset' = g.optreset
    /\ nextChar' = g.nextChar
    /\ firstNonopt' = g.firstNonopt
    /\ lastNonopt' = g.lastNonopt
    /\ flags' = g.flags

----------------------------------------------------------------------------
(* The inputs *)

MaxArgs == 3    \* elements after the program name in a generated vector
MaxCalls == 6   \* calls made on a scanner between two resets

prog == <<"p">>

\* All sequences of at most n elements of S.
SeqsUpTo(S, n) == UNION {[1..k -> S] : k \in 0..n}

\* The vectors of a family: the program name and at most MaxArgs tokens; and
\* the vector without even a program name.
Vectors(tokens) == {<<prog>> \o v : v \in SeqsUpTo(tokens, MaxArgs)} \cup {<<>>}

\* The vectors of a family with one token less: for the specs with a prefix
\* and for POSIXLY_CORRECT.
ShorterVectors(tokens) == {v \in Vectors(tokens) : Len(v) <= MaxArgs}

\* Elements for the short options of SpecABC: b takes no argument, a requires
\* one, c takes an optional one, x is not registered.
ShortTokens ==
    { <<"-", "b", "a">>, <<"-", "a", "f">>, <<"-", "c">>, <<"-", "c", "f">>,
      <<"-", "x", "b">>, <<"f">>, <<"-", "-">> }

SpecABC == <<"b", "a", ":", "c", ":", ":">>

ShortConfigs ==
    { [opts |-> SpecABC, env |-> FALSE],
      [opts |-> <<"+">> \o SpecABC, env |-> FALSE],
      [opts |-> <<"-">> \o SpecABC, env |-> FALSE],
      [opts |-> SpecABC, env |-> TRUE] }

\* The flag variables of the long-option tables.
FlagVars == {1}
ZeroFlags == [f \in FlagVars |-> Rune0]

\* A table with two pairs of indistinguishable entries (ra, rb and rc, rd) of
\* the same first letter, an optional-argument entry and a flag-setting entry.
LongTable ==
    << Option(<<"r", "a">>, RequiredArgument, NilFlag, "r"),
       Option(<<"r", "b">>, RequiredArgument, NilFlag, "r"),
       Option(<<"r", "c">>, NoArgument, NilFlag, "c"),
       Option(<<"r", "d">>, NoArgument, NilFlag, "c"),
       Option(<<"o">>, OptionalArgument, NilFlag, "o"),
       Option(<<"f", "l">>, NoArgument, 1, "F") >>

LongTokens ==
    { <<"-", "-", "r">>, <<"-", "-", "r", "a">>, <<"-", "-", "o">>,
      <<"-", "-", "o", "=", "v">>, <<"-", "W">>, <<"f">>, <<"-", "-">> }

SpecAW == <<"a", ":", "W", ";">>

LongConfigs ==
    { [opts |-> SpecAW, long |-> LongTable],
      [opts |-> <<"+">> \o SpecAW, long |-> LongTable],
      [opts |-> <<"-">> \o SpecAW, long |-> LongTable] }

\* The table of ExampleAmbiguousOptionError.
ExampleTable ==
    << Option(<<"o", "n", "e">>, NoArgument, NilFlag, "1"),
       Option(<<"t", "w", "o">>, NoArgument, NilFlag, "2"),
       Option(<<"o", "n", "e", "-", "o", "n", "e">>, NoArgument, NilFlag, "3"),
       Option(<<"f", "o", "u", "r">>, NoArgument, NilFlag, "4"),
       Option(<<"o", "n", "t", "o">>, NoArgument, NilFlag, "5") >>

\* The inputs of the examples and tests of the repository.
Examples ==
    { \* ExampleAmbiguousOptionError
      [args |-> <<prog, <<"-", "-", "o", "n">> >>,
       opts |-> <<"1", "2", "3", "4", "5">>, long |-> ExampleTable],
      \* ExampleGetopt_Optind
      [args |-> <<prog, <<"-", "a">>, <<"f", "1">>, <<"f", "2">>, <<"f", "3">> >>,
       opts |-> <<"a", ":">>, long |-> <<>>],
      \* ExampleArgumentRequiredError
      [args |-> <<prog, <<"-", "a">> >>, opts |-> <<"a", ":">>, long |-> <<>>],
      \* "continues on error"
      [args |-> <<prog, <<"-", "a", "c", "b">> >>, opts |-> <<>>, long |-> <<>>],
      \* "returns remaining arguments"
      [args |-> <<prog, <<"-", "a">>, <<"a", "r", "g", "1">>, <<"-", "b">>,
                  <<"a", "r", "g", "2">> >>,
       opts |-> <<"a", "b">>, long |-> <<>>] }

\* A later entry whose name is a prefix of an earlier one and of a later one.
ExactTable ==
    << Option(<<"a", "b">>, NoArgument, NilFlag, "x"),
       Option(<<"a">>, RequiredArgument, NilFlag, "y"),
       Option(<<"a", "c">>, NoArgument, 1, "z") >>

\* Two names for one option, and another option.
AliasTable ==
    << Option(<<"s", "a">>, NoArgument, NilFlag, "s"),
       Option(<<"s", "b">>, NoArgument, NilFlag, "s"),
       Option(<<"t">>, NoArgument, NilFlag, "t") >>

\* The table of ExampleArgumentNotAllowedError: Flag and Val are left zero.
SampleTable == << Option(<<"s", "a", "m", "p", "l", "e">>, NoArgument, NilFlag, Rune0) >>

\* The long options of the test "handles W; options".
WTable ==
    << Option(<<"a", "l", "p", "h", "a">>, NoArgument, NilFlag, "a"),
       Option(<<"b", "e", "t", "a">>, RequiredArgument, NilFlag, "b") >>

\* Short specs of the tests of parseShortOptionSpec, and some more with
\* colons and semicolons in other places.
SpecCases ==
    { <<>>, <<"-">>, <<"+">>, <<":">>, <<"-", ":">>, <<"+", ":">>,
      <<"W", ";">>, <<";", "W">>, <<"w", ";">>, <<"W", ";", ":">>, <<"W", ":">>,
      <<"W", ":", ":">>, <<"a", ":", ":", ":">>, <<":", ":", "a">>, <<"+", ":", ":", "a">>,
      <<"a", "b", ":", "W", ";">>, <<"a", ":", "a">> }

\* Each of them with a vector of option elements made of 'W', ':', ';',
\* 'a' and 'w'.
SpecInputs ==
    {[args |-> <<prog, <<"-", "W", ":">>, <<"-", ";", "w">>, <<"-", "a", "f">>>>,
      opts |-> o, long |-> <<>>, env |-> e] : o \in SpecCases, e \in BOOLEAN}
    \cup
    {[args |-> <<prog, <<"-", "a", x>>>>, opts |-> <<"a", "b", ":", "W", ";">>,
      long |-> WTable, env |-> FALSE] : x \in {":", ";"}}


\* Scans of single vectors, for the cases the generated vectors do not
\* reach.
Cases ==
    { \* an exact name that is a prefix of a later name
      [args |-> <<prog, <<"-", "-", "o", "n", "e">>>>, opts |-> <<"1", "2", "3", "4", "5">>, long |-> ExampleTable, env |-> FALSE],
      \* an exact name that is a prefix of an earlier name and of a later one
      [args |-> <<prog, <<"-", "-", "a", "=", "v">>>>, opts |-> <<>>, long |-> ExactTable, env |-> FALSE],
      [args |-> <<prog, <<"-", "-", "a">>, <<"f">>>>, opts |-> <<>>, long |-> ExactTable, env |-> FALSE],
      \* an abbreviation of entries that cannot be told apart
      [args |-> <<prog, <<"-", "-", "s">>, <<"-", "-", "t">>>>, opts |-> <<>>, long |-> AliasTable, env |-> FALSE],
      \* an empty text after '='
      [args |-> <<prog, <<"-", "-", "o", "=">>>>, opts |-> <<"a", ":", "W", ";">>, long |-> LongTable, env |-> FALSE],
      [args |-> <<prog, <<"-", "-", "r", "a", "=", "v">>, <<"f">>>>, opts |-> <<"a", ":", "W", ";">>, long |-> LongTable, env |-> FALSE],
      \* ExampleArgumentNotAllowedError
      [args |-> <<prog, <<"-", "-", "s", "a", "m", "p", "l", "e", "=", "a", "r", "g">>>>, opts |-> <<>>, long |-> SampleTable, env |-> FALSE],
      \* an argument given to a no-argument entry, with and without Flag
      [args |-> <<prog, <<"-", "-", "f", "l", "=", "v">>, <<"-", "-", "o">>>>, opts |-> <<"a", ":", "W", ";">>, long |-> LongTable, env |-> FALSE],
      [args |-> <<prog, <<"-", "-", "r", "c", "=", "v">>, <<"f">>>>, opts |-> <<"a", ":", "W", ";">>, long |-> LongTable, env |-> FALSE],
      \* the flag-setting entry, by name and abbreviated
      [args |-> <<prog, <<"-", "-", "f", "l">>, <<"-", "-", "o">>, <<"-", "-", "r">>>>, opts |-> <<"a", ":", "W", ";">>, long |-> LongTable, env |-> FALSE],
      [args |-> <<prog, <<"-", "-", "f">>, <<"-", "-", "z", "z">>>>, opts |-> <<"a", ":", "W", ";">>, long |-> LongTable, env |-> FALSE],
      \* -WX in one element
      [args |-> <<prog, <<"-", "W", "r", "a">>, <<"f">>>>, opts |-> <<"a", ":", "W", ";">>, long |-> LongTable, env |-> FALSE],
      [args |-> <<prog, <<"-", "W", "r", "a">>>>, opts |-> <<"a", ":", "W", ";">>, long |-> LongTable, env |-> FALSE],
      [args |-> <<prog, <<"-", "W", "f", "l">>, <<"f">>>>, opts |-> <<"a", ":", "W", ";">>, long |-> LongTable, env |-> FALSE],
      [args |-> <<prog, <<"-", "W", "o", "=", "v">>>>, opts |-> <<"a", ":", "W", ";">>, long |-> LongTable, env |-> FALSE],
      [args |-> <<prog, <<"-", "W", "o">>, <<"f">>>>, opts |-> <<"a", ":", "W", ";">>, long |-> LongTable, env |-> FALSE],
      [args |-> <<prog, <<"-", "W", "r">>>>, opts |-> <<"a", ":", "W", ";">>, long |-> LongTable, env |-> FALSE],
      [args |-> <<prog, <<"-", "W", "r", "c", "=", "v">>>>, opts |-> <<"a", ":", "W", ";">>, long |-> LongTable, env |-> FALSE],
      [args |-> <<prog, <<"-", "W", "z", "z">>, <<"f">>>>, opts |-> <<"a", ":", "W", ";">>, long |-> LongTable, env |-> FALSE],
      \* -W X in two elements
      [args |-> <<prog, <<"-", "W">>, <<"r", "a">>, <<"f">>>>, opts |-> <<"a", ":", "W", ";">>, long |-> LongTable, env |-> FALSE],
      [args |-> <<prog, <<"-", "W">>, <<"r", "a">>>>, opts |-> <<"a", ":", "W", ";">>, long |-> LongTable, env |-> FALSE],
      [args |-> <<prog, <<"-", "W">>, <<"f", "l">>, <<"f">>>>, opts |-> <<"a", ":", "W", ";">>, long |-> LongTable, env |-> FALSE],
      [args |-> <<prog, <<"-", "W">>, <<"o", "=", "v">>>>, opts |-> <<"a", ":", "W", ";">>, long |-> LongTable, env |-> FALSE],
      [args |-> <<prog, <<"-", "W">>, <<"o">>, <<"f">>>>, opts |-> <<"a", ":", "W", ";">>, long |-> LongTable, env |-> FALSE],
      [args |-> <<prog, <<"-", "W">>, <<"r">>>>, opts |-> <<"a", ":", "W", ";">>, long |-> LongTable, env |-> FALSE],
      [args |-> <<prog, <<"-", "W">>, <<"r", "c", "=", "v">>>>, opts |-> <<"a", ":", "W", ";">>, long |-> LongTable, env |-> FALSE],
      [args |-> <<prog, <<"-", "W">>, <<"z", "z">>, <<"f">>>>, opts |-> <<"a", ":", "W", ";">>, long |-> LongTable, env |-> FALSE],
      \* "handles W; options", case 3: W; without long options
      [args |-> <<prog, <<"-", "W">>, <<"-", ";">>>>, opts |-> <<"W", ";">>, long |-> <<>>, env |-> FALSE],
      [args |-> <<prog, <<"-", "W">>, <<"f">>, <<"-", "W">>>>, opts |-> <<"W", ";">>, long |-> <<>>, env |-> FALSE],
      \* "-f" and "-name" elements for GetoptLongOnly
      [args |-> <<prog, <<"-", "f">>, <<"-", "-", "o">>>>, opts |-> <<"f", "a", ":">>, long |-> LongTable, env |-> FALSE],
      [args |-> <<prog, <<"-", "r", "a">>, <<"f">>>>, opts |-> <<"a", ":", "W", ";">>, long |-> LongTable, env |-> FALSE],
      [args |-> <<prog, <<"-", "r", "a">>>>, opts |-> <<"a", ":", "W", ";">>, long |-> LongTable, env |-> FALSE],
      [args |-> <<prog, <<"-", "r">>, <<"-", "a">>, <<"f">>>>, opts |-> <<"a", ":", "W", ";">>, long |-> LongTable, env |-> FALSE],
      [args |-> <<prog, <<"-", "r">>>>, opts |-> <<"a", ":", "W", ";">>, long |-> LongTable, env |-> FALSE],
      [args |-> <<prog, <<"-", "z", "z">>, <<"-", "a">>, <<"f">>>>, opts |-> <<"a", ":", "W", ";">>, long |-> LongTable, env |-> FALSE],
      [args |-> <<prog, <<"-", "r", "c", "=", "v">>, <<"-", "a">>, <<"f">>>>, opts |-> <<"a", ":", "W", ";">>, long |-> LongTable, env |-> FALSE],
      [args |-> <<prog, <<"-", "f", "l">>, <<"-", "o", "=", "v">>, <<"-", "o">>>>, opts |-> <<"a", ":", "W", ";">>, long |-> LongTable, env |-> FALSE],
      [args |-> <<prog, <<"-", "a">>, <<"f">>>>, opts |-> <<"a", ":", "W", ";">>, long |-> LongTable, env |-> FALSE],
      [args |-> <<prog, <<"-", "a", "f">>, <<"-", "o">>>>, opts |-> <<"a", ":", "W", ";">>, long |-> LongTable, env |-> FALSE],
      [args |-> <<prog, <<"-", "z", "z">>, <<"-", "q">>>>, opts |-> <<"a", ":", "W", ";">>, long |-> LongTable, env |-> FALSE],
      [args |-> <<prog, <<"-", "r">>, <<"-", "a">>>>, opts |-> <<"a", ":", "W", ";">>, long |-> LongTable, env |-> FALSE],
      \* prefixes of the short spec
      [args |-> <<prog, <<"f">>, <<"-", "a">>, <<"f">>>>, opts |-> <<"-", "b", "a", ":", "c", ":", ":">>, long |-> <<>>, env |-> TRUE],
      [args |-> <<prog, <<"f">>, <<"-", "a">>, <<"f">>>>, opts |-> <<"+", "b", "a", ":", "c", ":", ":">>, long |-> <<>>, env |-> TRUE],
      [args |-> <<prog, <<"f">>, <<"-", "a", ":">>, <<"-", "W">>>>, opts |-> <<"+", ":", "a", ":", "W", ";">>, long |-> <<>>, env |-> FALSE],
      [args |-> <<prog, <<"f">>, <<"-", "a", ":">>, <<"-", "W">>>>, opts |-> <<"-", ":", "a", ":", "W", ";">>, long |-> <<>>, env |-> FALSE],
      [args |-> <<prog, <<"f">>, <<"-", "a", ":">>, <<"-", "W">>>>, opts |-> <<":", "a", ":", "W", ";">>, long |-> <<>>, env |-> FALSE],
      [args |-> <<prog, <<"f">>, <<"-", "a", ":">>, <<"-", "W">>>>, opts |-> <<":", "a", ":", "W", ";">>, long |-> <<>>, env |-> TRUE],
      [args |-> <<prog, <<"f">>, <<"-", "a", ":">>, <<"-", "W">>>>, opts |-> <<"a", ":", "W", ";">>, long |-> <<>>, env |-> FALSE],
      [args |-> <<prog, <<"f">>, <<"-", ":">>, <<"-", "+">>>>, opts |-> <<":", ":", "+", "-">>, long |-> <<>>, env |-> FALSE],
      [args |-> <<prog, <<"-", "W">>, <<>>, <<"f">>>>, opts |-> <<"a", ":", "W", ";">>, long |-> LongTable, env |-> FALSE],
      \* an element "-", with '-' an option character of the spec and not
      [args |-> <<prog, <<"-">>, <<"-", "a">>>>, opts |-> <<"a", "-">>, long |-> <<>>, env |-> FALSE],
      [args |-> <<prog, <<"-">>, <<"-", "a">>>>, opts |-> <<"a">>, long |-> <<>>, env |-> FALSE],
      [args |-> <<prog, <<"-">>, <<"-", "a">>>>, opts |-> <<"+", "a", "-">>, long |-> <<>>, env |-> FALSE],
      [args |-> <<prog, <<"-">>, <<"-", "a">>>>, opts |-> <<"+", "a">>, long |-> <<>>, env |-> FALSE],
      [args |-> <<prog, <<"-">>, <<"-", "a">>>>, opts |-> <<"-", "a", "-">>, long |-> <<>>, env |-> FALSE],
      [args |-> <<prog, <<"-">>, <<"-", "a">>>>, opts |-> <<"-", "a">>, long |-> <<>>, env |-> FALSE],
      [args |-> <<prog, <<"-", "a">>, <<"-">>, <<"-", "-", "o">>>>, opts |-> <<"a", "-">>, long |-> LongTable, env |-> FALSE] }

\* What New/NewLong can be called with.
Inputs ==
    {[args |-> v, opts |-> c.opts, long |-> <<>>, env |-> c.env] :
        v \in Vectors(ShortTokens), c \in {k \in ShortConfigs : ~k.env}}
    \cup
    {[args |-> v, opts |-> c.opts, long |-> <<>>, env |-> c.env] :
        v \in ShorterVectors(ShortTokens), c \in {k \in ShortConfigs : k.env}}
    \cup
    {[args |-> v, opts |-> c.opts, long |-> c.long, env |-> FALSE] :
        v \in Vectors(LongTokens), c \in {k \in LongConfigs : k.opts = SpecAW}}
    \cup
    {[args |-> v, opts |-> c.opts, long |-> c.long, env |-> FALSE] :
        v \in ShorterVectors(LongTokens), c \in {k \in LongConfigs : k.opts # SpecAW}}
    \cup
    {[args |-> e.args, opts |-> e.opts, long |-> e.long, env |-> FALSE] : e \in Examples}
    \cup
    Cases
    \cup
    SpecInputs

----------------------------------------------------------------------------
(* History *)

Last(s) == s[Len(s)]

\* The index of the element a call starts to examine when no option
\* characters are pending: under Permute the non-options from optind on are
\* skipped first.
Examined(g) ==
    IF g.nextChar # <<>> THEN g.optind
    ELSE IF g.shortOptions.Ordering = Permute THEN skipNonoptions(g.Args, g.optind)
    ELSE g.optind

\* The call found "--" as the next element to examine.
FoundTerminator(g) ==
    /\ Len(g.Args) >= 1
    /\ g.nextChar = <<>>
    /\ Examined(g) < Len(g.Args)
    /\ At(g.Args, Examined(g)) = argumentTerminator

\* The record of a call that took the scanner g to the result r: the result,
\* the original indices of the elements it consumed (elems), the one among
\* them that Opt.Arg points at (argElem, or -1), and whether it found "--".
Entry(g, r) ==
    LET lo == Examined(g)
        hi == IF r.g.nextChar = <<>> THEN r.g.optind - 1 ELSE r.g.optind
        term == FoundTerminator(g)
    IN [opt |-> r.opt, err |-> r.err, panic |-> r.panic, term |-> term,
        elems |-> IF ~r.opt.nil \/ ~r.err.nil THEN {At(g.src, i) : i \in lo..hi}
                  ELSE IF term THEN {At(g.src, lo)}
                  ELSE {},
        argElem |-> IF ~r.opt.nil /\ r.opt.Arg.ref # -1 THEN At(g.src, r.opt.Arg.ref)
                    ELSE -1,
        optind |-> r.g.optind]

IsDone(e) == e.opt.nil /\ e.err.nil /\ ~e.panic
IsOpt(e) == ~e.opt.nil
IsErr(e) == ~e.err.nil

----------------------------------------------------------------------------
(* The operations *)

\* New(in.args, in.opts) or NewLong(in.args, in.opts, in.long)
NewOf(in) ==
    IF in.long = <<>> THEN New(in.args, in.opts, in.env, ZeroFlags)
    ELSE NewLong(in.args, in.opts, in.long, in.env, ZeroFlags)

\* No reset: the value of reset where no reset is on record.
NoReset == [made |-> FALSE, long |-> FALSE, cluster |-> FALSE, pending |-> FALSE,
            done |-> FALSE]

\* The scanner is the one made from the input in.
Start(in) ==
    LET g == NewOf(in)
    IN /\ Args = g.Args
       /\ src = g.src
       /\ shortOptions = g.shortOptions
       /\ longOptions = g.longOptions
       /\ optind = g.optind
       /\ optreset = g.optreset
       /\ nextChar = g.nextChar
       /\ firstNonopt = g.firstNonopt
       /\ lastNonopt = g.lastNonopt
       /\ flags = g.flags
       /\ env = in.env
       /\ opts = in.opts
       /\ orig = in.args
       /\ results = <<>>
       /\ pre = g
       /\ longOnlyUsed = FALSE
       /\ reset = NoReset

\* No iterator: the value of iter where Iterate was not called.
NoIter ==
    [state |-> "none", g |-> ZeroGetopt(ZeroFlags), calls |-> <<>>, yielded |-> <<>>,
     remaining |-> [nil |-> TRUE, s |-> <<>>]]

\* No second instance: the value of other where there is none.
NoOther == [made |-> FALSE, g |-> ZeroGetopt(ZeroFlags), init |-> ZeroGetopt(ZeroFlags),
            results |-> <<>>]

Init ==
    \E in \in Inputs :
        /\ Start(in)
        /\ iter = NoIter
        /\ other = NoOther

\* One call of getoptInternal.  A call that panics unwinds the caller: no
\* further call is made on the scanner before it is reset.
Call(longOnly) ==
    /\ Len(results) < MaxCalls
    /\ IF results = <<>> THEN TRUE ELSE ~Last(results).panic
    /\ LET r == getoptInternal(G, longOnly)
       IN /\ SetG(r.g)
          /\ results' = Append(results, Entry(G, r))
    /\ pre' = G
    /\ longOnlyUsed' = (longOnlyUsed \/ longOnly)
    /\ UNCHANGED <<env, opts, orig, iter, other, reset>>

\* g.Getopt()
Getopt == Call(FALSE)

\* g.GetoptLong()
GetoptLong == Getopt

\* g.GetoptLongOnly()
GetoptLongOnly == Call(TRUE)

\* The scanner is g after a reset: the history starts again, rec the record
\* of the reset.
Restart(g, rec) ==
    /\ SetG(g)
    /\ orig' = g.Args
    /\ results' = <<>>
    /\ pre' = g
    /\ longOnlyUsed' = FALSE
    /\ reset' = rec
    /\ UNCHANGED <<env, opts, iter, other>>

\* g.Reset(g.Args, opts): the vector is scanned again for the same short
\* options; the long options are dropped.
Reset == Restart(ResetG(G, Args, opts, env), reset)

\* g.ResetLong(g.Args, opts, g.longOptions): the vector is scanned again for
\* the same options.
ResetLong == Restart(ResetLongG(G, Args, opts, longOptions, env), reset)

Next ==
    \/ Getopt
    \/ GetoptLong
    \/ GetoptLongOnly
    \/ Reset
    \/ ResetLong

Spec == Init /\ [][Next]_vars

----------------------------------------------------------------------------
(* src/iter.go: Iterate, IterateLong *)

\* The variables of the scanner but for the flag variables, which the
\* scanners of one long-option table share.
scannerVars == <<Args, src, shortOptions, longOptions, optind, optreset, nextChar,
                 firstNonopt, lastNonopt, env, opts, orig, results, pre, longOnlyUsed,
                 reset>>

\* The inputs of the examples and tests with the environment they run in.
ExampleInputs ==
    {[args |-> e.args, opts |-> e.opts, long |-> e.long, env |-> FALSE] : e \in Examples}

\* What Iterate/IterateLong are called with: the shorter vectors, and the
\* single ones.
IterInputs ==
    {in \in Inputs : Len(in.args) <= MaxArgs} \cup ExampleInputs \cup Cases \cup SpecInputs

\* "*remaining = g.Args[g.Optind():]", which panics when Optind is beyond
\* the end of Args.
remainingOf(g) ==
    IF g.optind > Len(g.Args) THEN [panic |-> TRUE, nil |-> TRUE, s |-> <<>>]
    ELSE [panic |-> FALSE, nil |-> FALSE, s |-> From(g.Args, g.optind)]

\* The iterator leaves its loop with the scanner g: remaining is assigned.
leaveLoop(it, g, state) ==
    LET rem == remainingOf(g)
    IN [it EXCEPT !.g = g,
                  !.state = IF rem.panic THEN "panic" ELSE state,
                  !.remaining = [nil |-> rem.nil, s |-> rem.s]]

\* Iterate(args, opts, &remaining) or IterateLong(args, opts, longOptions,
\* &remaining), next to a scanner made from the same input.
InitIter ==
    \E in \in IterInputs :
        /\ Start(in)
        /\ iter = [NoIter EXCEPT !.state = "running", !.g = NewOf(in)]
        /\ other = NoOther

\* A variant of loopTurn that leaves the loop after it has yielded an
\* error.
loopTurnStoppingAtError(it, g, r) ==
    LET called == [it EXCEPT !.g = r.g, !.calls = Append(@, Entry(g, r))]
        yielded == [called EXCEPT !.yielded = Append(@, [opt |-> r.opt, err |-> r.err])]
    IN IF r.panic THEN [called EXCEPT !.state = "panic"]
       ELSE IF r.opt.nil /\ r.err.nil THEN leaveLoop(called, r.g, "finished")
       ELSE IF ~r.err.nil THEN leaveLoop(yielded, r.g, "finished")
       ELSE yielded

\* The body of the loop of the iterator it, r the result of g.Getopt() on
\* its scanner g: it leaves the loop on Done and yields the result
\* otherwise, the consumer asking for more.
loopTurn(it, g, r) ==
    LET called == [it EXCEPT !.g = r.g, !.calls = Append(@, Entry(g, r))]
    IN IF r.panic THEN [called EXCEPT !.state = "panic"]
       ELSE IF r.opt.nil /\ r.err.nil THEN leaveLoop(called, r.g, "finished")
       ELSE [called EXCEPT !.yielded = Append(@, [opt |-> r.opt, err |-> r.err])]

\* One turn of the loop of the iterator: it calls g.Getopt() on its scanner,
\* which sets the flag variables of the long-option table.
IterateNext ==
    /\ iter.state = "running"
    /\ Len(iter.yielded) <= MaxCalls
    /\ \E g \in {[iter.g EXCEPT !.flags = flags]} :
          \E r \in {getoptInternal(g, FALSE)} :
              /\ iter' = loopTurn(iter, g, r)
              /\ flags' = r.g.flags
    /\ UNCHANGED <<scannerVars, other>>

\* The consumer stops at the result it was given: yield returns false.
IterateBreak ==
    /\ iter.state = "running"
    /\ iter.yielded # <<>>
    /\ iter' = leaveLoop(iter, iter.g, "broken")
    /\ UNCHANGED <<scannerVars, flags, other>>

NextIter ==
    \/ Getopt
    \/ IterateNext
    \/ IterateBreak

SpecIter == InitIter /\ [][NextIter]_vars

----------------------------------------------------------------------------
(* src/getopt.go: two Getopt instances *)

\* What the first instance is made from: the longer vectors with the plain
\* short specs.
TwoInputs ==
    {in \in Inputs : Len(in.args) = MaxArgs /\ in.opts \in {SpecABC, SpecAW} /\ ~in.env}

\* What the second instance is made from.
OtherInputs ==
    ExampleInputs \cup
    {[args |-> v, opts |-> SpecAW, long |-> LongTable, env |-> FALSE] :
        v \in {<<prog, <<"f">>, <<"-", "-", "f", "l">>, <<"-", "W">>>>,
               <<prog, <<"f">>, <<"-", "-", "r", "a">>, <<"-", "-">>, <<"-", "a">>>>}}

\* Two instances, each made by New or NewLong from a vector of its own.
\* Their long-option tables may be the same slice, so that their Flag
\* pointers point at the same variables.
InitTwo ==
    \E a \in TwoInputs, b \in OtherInputs :
        /\ Start(a)
        /\ iter = NoIter
        /\ other = [made |-> TRUE, g |-> NewOf(b), init |-> NewOf(b), results |-> <<>>]

\* A variant of OtherGetopt for a scan position that is a variable of the
\* package: the second instance scans from the optind of the first.
OtherGetoptSharingOptind ==
    /\ other.made
    /\ Len(other.results) < MaxCalls
    /\ IF other.results = <<>> THEN TRUE ELSE ~Last(other.results).panic
    /\ LET g == [other.g EXCEPT !.flags = flags, !.optind = optind]
           r == getoptInternal(g, FALSE)
       IN /\ other' = [other EXCEPT !.g = r.g, !.results = Append(@, Entry(g, r))]
          /\ flags' = r.g.flags
          /\ optind' = r.g.optind
    /\ UNCHANGED <<Args, src, shortOptions, longOptions, optreset, nextChar,
                   firstNonopt, lastNonopt, env, opts, orig, results, pre, longOnlyUsed, iter,
                   reset>>

\* other.Getopt(): one call on the second instance.
OtherGetopt ==
    /\ other.made
    /\ Len(other.results) < MaxCalls
    /\ IF other.results = <<>> THEN TRUE ELSE ~Last(other.results).panic
    /\ LET g == [other.g EXCEPT !.flags = flags]
           r == getoptInternal(g, FALSE)
       IN /\ other' = [other EXCEPT !.g = r.g, !.results = Append(@, Entry(g, r))]
          /\ flags' = r.g.flags
    /\ UNCHANGED <<scannerVars, iter>>

\* The calls of the two instances in any order.
NextTwo ==
    \/ Getopt
    \/ OtherGetopt

SpecTwo == InitTwo /\ [][NextTwo]_vars

----------------------------------------------------------------------------
(* src/getopt.go: Reset, ResetLong in the middle of a scan *)

\* The vectors that are scanned and scanned again: the shorter ones, and the
\* single ones.
ResetInputs ==
    {in \in Inputs : Len(in.args) <= MaxArgs} \cup ExampleInputs \cup Cases \cup SpecInputs

InitReset ==
    \E in \in ResetInputs :
        /\ Start(in)
        /\ iter = NoIter
        /\ other = NoOther

\* The record of a reset by Reset (long FALSE) or ResetLong (long TRUE)
\* called in the current state: in the middle of an element, with skipped
\* non-options not yet moved, after Done.
ResetRecord(long) ==
    [made |-> TRUE, long |-> long,
     cluster |-> nextChar # <<>>,
     pending |-> firstNonopt # lastNonopt,
     done |-> IF results = <<>> THEN FALSE ELSE IsDone(Last(results))]

\* g.Reset(g.Args, opts) after at least one call, on record.
ResetMidScan ==
    /\ results # <<>>
    /\ Restart(ResetG(G, Args, opts, env), ResetRecord(FALSE))

\* g.ResetLong(g.Args, opts, g.longOptions) after at least one call, on
\* record.
ResetLongMidScan ==
    /\ results # <<>>
    /\ Restart(ResetLongG(G, Args, opts, longOptions, env), ResetRecord(TRUE))

NextReset ==
    \/ Getopt
    \/ GetoptLongOnly
    \/ ResetMidScan
    \/ ResetLongMidScan

SpecReset == InitReset /\ [][NextReset]_vars

----------------------------------------------------------------------------
(* src/getopt.go: exchange on its own *)

MaxLen == 7   \* elements of a vector handed to exchange

\* A vector of n elements that are all different: element i is i characters.
Labelled(n) == [i \in 1..n |-> [k \in 1..i |-> "x"]]

\* A scanner over Labelled(n) with firstNonopt = bottom, lastNonopt = middle
\* and optind = top, as the callers of exchange have it: a run of skipped
\* non-options in [bottom, middle) and the option elements scanned since
\* in [middle, top).
ExchangeInput(n, bottom, middle, top) ==
    [New(Labelled(n), <<>>, FALSE, ZeroFlags)
        EXCEPT !.firstNonopt = bottom, !.lastNonopt = middle, !.optind = top]

\* No call of exchange yet: pre is the zero value.
InitExchange ==
    \E n \in 1..MaxLen :
        \E bottom, middle, top \in 1..n :
            /\ bottom < middle /\ middle < top
            /\ LET g == ExchangeInput(n, bottom, middle, top)
               IN /\ Args = g.Args
                  /\ src = g.src
                  /\ shortOptions = g.shortOptions
                  /\ longOptions = g.longOptions
                  /\ optind = g.optind
                  /\ optreset = g.optreset
                  /\ nextChar = g.nextChar
                  /\ firstNonopt = g.firstNonopt
                  /\ lastNonopt = g.lastNonopt
                  /\ flags = g.flags
                  /\ orig = g.Args
            /\ env = FALSE
            /\ opts = <<>>
            /\ results = <<>>
            /\ pre = ZeroGetopt(ZeroFlags)
            /\ longOnlyUsed = FALSE
            /\ iter = NoIter
            /\ other = NoOther
            /\ reset = NoReset

\* g.exchange(), once.
ExchangeCall ==
    /\ pre = ZeroGetopt(ZeroFlags)
    /\ SetG(exchange(G))
    /\ pre' = G
    /\ UNCHANGED <<env, opts, orig, results, longOnlyUsed, iter, other, reset>>

NextExchange == ExchangeCall

SpecExchange == InitExchange /\ [][NextExchange]_vars

----------------------------------------------------------------------------
(* Vocabulary of the properties *)

\* At least one call was made since New/Reset; LastCall is its record.
Called == results # <<>>
LastCall == Last(results)

\* The call just made is the first one to return Done.
FirstDone ==
    /\ Called
    /\ IsDone(LastCall)
    /\ \A k \in 1..(Len(results) - 1) : ~IsDone(results[k])

\* The original indices of the elements consumed by the calls made: as
\* options, as arguments of options or as the terminator "--".
Consumed == UNION {results[m].elems : m \in 1..Len(results)}

\* Those the first k calls consumed as options or as arguments of options.
OptionElems(k) == UNION {results[m].elems : m \in {n \in 1..k : ~results[n].term}}

\* The original indices of the elements a call returned as an option or
\* reported in an error (an element Opt.Arg points at is an argument).
Reported(e) == IF IsOpt(e) \/ IsErr(e) THEN e.elems \ {e.argElem} ELSE {}

\* The indices i (as in Go) of a slice s[lo:].
Indices(s, lo) == lo..(Len(s) - 1)

\* src increases over the indices I of Args: the elements there are in their
\* original relative order.
InOriginalOrder(I) == \A i, j \in I : i < j => At(src, i) < At(src, j)

\* The ordering the short spec and the environment ask for.
WantsPermute == ~HasPrefix(opts, <<"+">>) /\ ~HasPrefix(opts, <<"-">>) /\ ~env
WantsRequireOrder ==
    \/ HasPrefix(opts, <<"+">>)
    \/ ~HasPrefix(opts, <<"-">>) /\ env
WantsReturnInOrder == HasPrefix(opts, <<"-">>)

\* The element the last call examined first, and its index.
ExaminedIndex == Examined(pre)
ExaminedElement == At(pre.Args, ExaminedIndex)

\* The last call started on a fresh element (no option characters pending)
\* and that element exists.
FreshElement ==
    /\ Called
    /\ Len(pre.Args) >= 1
    /\ pre.nextChar = <<>>
    /\ ExaminedIndex < Len(pre.Args)

\* The last call, a Getopt/GetoptLong call, handled a short option
\* character: one was pending, or the element it examined is an option
\* element other than "--" and not a long option.
ShortCall ==
    /\ Called
    /\ ~longOnlyUsed
    /\ Len(pre.Args) >= 1
    /\ \/ pre.nextChar # <<>>
       \/ /\ FreshElement
          /\ ~nonoption(ExaminedElement)
          /\ ExaminedElement # argumentTerminator
          /\ ~(Len(pre.longOptions) > 0 /\ At(ExaminedElement, 1) = "-")

\* The characters that were left to handle in that element: the one the call
\* handled, and the rest.
ShortChars == IF pre.nextChar # <<>> THEN pre.nextChar ELSE From(ExaminedElement, 1)
ShortChar == At(ShortChars, 0)
ShortRest == From(ShortChars, 1)

\* The character is the -W trigger with long options configured.
WDispatch ==
    ShortChar = "W" /\ pre.shortOptions.W /\ Len(pre.longOptions) > 0

\* The disposition of a registered short option character.
Disposition(c) == pre.shortOptions.Opts[c]

----------------------------------------------------------------------------
(* C1 *)

\* C1: under Permute (no '+' or '-' prefix, POSIXLY_CORRECT unset), for a
\* vector without "--", when Getopt first returns Done: Args[Optind:] holds
\* exactly the elements no call consumed, all of them non-options, in their
\* original order; Args[1:Optind] holds exactly the consumed elements (the
\* option elements and their separate arguments) in their original order;
\* every option element of the original vector was reported by a call or
\* taken as an argument; and no element was altered.
C1_PermuteSeparatesOperands ==
    ( /\ WantsPermute
      /\ ~longOnlyUsed
      /\ FirstDone
      /\ \A i \in 1..Len(orig) : orig[i] # argumentTerminator )
    =>
    /\ shortOptions.Ordering = Permute
    /\ Len(Args) = Len(orig)
    /\ \A i \in Indices(Args, 0) : At(Args, i) = At(orig, At(src, i))
    /\ Len(Args) >= 1 => At(src, 0) = 0
    /\ \A i \in Indices(Args, optind) :
          At(src, i) \notin Consumed /\ nonoption(At(Args, i))
    /\ InOriginalOrder(Indices(Args, optind))
    /\ \A i \in 1..(optind - 1) : i < Len(Args) /\ At(src, i) \in Consumed
    /\ InOriginalOrder(1..(optind - 1))
    /\ \A i \in Indices(orig, 1) :
          ~nonoption(At(orig, i)) =>
              \E k \in 1..Len(results) :
                  (IsOpt(results[k]) \/ IsErr(results[k])) /\ i \in results[k].elems

\* Witness of C1: a scan under Permute ended with Done after moving a
\* skipped non-option behind an option and its separate argument.
C1_Witness ==
    /\ WantsPermute
    /\ ~longOnlyUsed
    /\ FirstDone
    /\ \A i \in 1..Len(orig) : orig[i] # argumentTerminator
    /\ Args # orig
    /\ optind = 3
    /\ Len(Args) = 4
    /\ \E k \in 1..Len(results) : results[k].argElem # -1

----------------------------------------------------------------------------
(* C2 *)

\* Some element of the original vector before index i is "--".
AfterTerminator(i) == \E j \in 1..(i - 1) : At(orig, j) = argumentTerminator

\* C2 as stated: over any number of Getopt/GetoptLong calls, no element
\* located after the first "--" of the vector is returned as an option or
\* reported in an option error.
C2_NothingAfterTerminator ==
    ~longOnlyUsed =>
        \A k \in 1..Len(results) :
            \A i \in Reported(results[k]) : ~AfterTerminator(i)

\* The "--" at the original index j was, before call k, found by a call as
\* the next element to scan, and that call returned Done.
EndedScanBefore(j, k) ==
    \E m \in 1..(k - 1) : results[m].term /\ IsDone(results[m]) /\ j \in results[m].elems

\* C2 as amended: an element located after a "--" is returned as an option
\* or reported in an option error only if that "--" was consumed as the
\* argument of an option (a required argument or the argument of -W), or an
\* earlier call found that "--" as the next element to scan and returned
\* Done for it. So up to the first Done nothing located after a "--" that
\* is not the argument of an option is returned or reported.
C2_NothingAfterScannedTerminator ==
    ~longOnlyUsed =>
        \A k \in 1..Len(results) :
            \A i \in Reported(results[k]) :
                \A j \in 1..(i - 1) :
                    At(orig, j) = argumentTerminator =>
                        j \in OptionElems(k) \/ EndedScanBefore(j, k)

\* Witness of C2: a call found "--", after an option was returned, and
\* returned Done although an option element follows the "--".
C2_Witness ==
    /\ ~longOnlyUsed
    /\ FirstDone
    /\ LastCall.term
    /\ \E k \in 1..Len(results) : IsOpt(results[k])
    /\ \E t \in LastCall.elems :
          \E i \in Indices(orig, t + 1) : ~nonoption(At(orig, i))

----------------------------------------------------------------------------
(* C3 *)

\* C3: a call that has no option characters pending and finds "--" as the
\* next element to examine returns Done; after it Optind points just past
\* that "--", and Args[Optind:] is, in original order, the elements before
\* the "--" that no call consumed (the skipped non-options) followed by all
\* the elements that came after the "--".
C3_TerminatorEndsScan ==
    (Called /\ FoundTerminator(pre)) =>
        LET t == At(pre.src, ExaminedIndex)
        IN /\ IsDone(LastCall)
           /\ nextChar = <<>>
           /\ optind >= 1
           /\ At(Args, optind - 1) = argumentTerminator
           /\ At(src, optind - 1) = t
           /\ InOriginalOrder(Indices(Args, optind))
           /\ {At(src, i) : i \in Indices(Args, optind)} =
                 {i \in Indices(orig, 1) : i > t \/ (i < t /\ i \notin Consumed)}
           /\ \A i \in Indices(Args, optind) : At(src, i) < t => nonoption(At(Args, i))
           /\ \A i \in Indices(Args, 0) : At(Args, i) = At(orig, At(src, i))

\* Witness of C3: under Permute a call found "--" after a non-option was
\* skipped, with elements left after the "--"; the vector was permuted.
C3_Witness ==
    /\ Called
    /\ FoundTerminator(pre)
    /\ pre.shortOptions.Ordering = Permute
    /\ Args # orig
    /\ optind < Len(Args)
    /\ \E i \in Indices(Args, optind) : At(src, i) < At(src, optind - 1)
    /\ \E i \in Indices(Args, optind) : At(src, i) > At(src, optind - 1)

----------------------------------------------------------------------------
(* C4 *)

\* C4: under RequireOrder (a leading '+', or no prefix with POSIXLY_CORRECT
\* set), a call that finds a non-option as the next element to examine
\* returns Done without consuming it: Optind stays at the index of that
\* non-option, no element from there on was consumed by any call, and Args
\* is the original vector, element by element in place.
C4_RequireOrderStops ==
    (WantsRequireOrder /\ FreshElement /\ nonoption(ExaminedElement)) =>
        /\ pre.shortOptions.Ordering = RequireOrder
        /\ ExaminedIndex = pre.optind
        /\ IsDone(LastCall)
        /\ LastCall.elems = {}
        /\ optind = pre.optind
        /\ nextChar = <<>>
        /\ nonoption(At(Args, optind))
        /\ \A i \in Consumed : i < optind
        /\ Args = orig
        /\ Args = pre.Args
        /\ \A i \in Indices(Args, 0) : At(src, i) = i

\* Witness of C4: under RequireOrder, after an option was returned, a call
\* stopped at a non-option that an option element follows.
C4_Witness ==
    /\ WantsRequireOrder
    /\ FreshElement
    /\ nonoption(ExaminedElement)
    /\ FirstDone
    /\ optind > 1
    /\ \E k \in 1..Len(results) : IsOpt(results[k])
    /\ \E i \in Indices(Args, optind + 1) : ~nonoption(At(Args, i))

----------------------------------------------------------------------------
(* C5 *)

\* C5: under ReturnInOrder (a leading '-'), with a vector that holds the
\* program name, a Getopt call that reaches a non-option returns
\* Opt{C: 1, Arg: &Args[that index]} and advances Optind by one; Args is never
\* permuted and the elements the successive results consumed never go back
\* in the original order; and a call returns Done with Optind # len(Args)
\* only when it has just consumed "--", which is then Args[Optind-1].
C5_ReturnInOrderReportsNonoptions ==
    (WantsReturnInOrder /\ ~longOnlyUsed /\ Called /\ Len(orig) >= 1) =>
        /\ pre.shortOptions.Ordering = ReturnInOrder
        /\ (FreshElement /\ nonoption(ExaminedElement)) =>
              /\ ExaminedIndex = pre.optind
              /\ LastCall.opt = Opt(Rune1, ArgRef(pre.Args, pre.optind), 0)
              /\ LastCall.opt.Arg.s = At(orig, pre.optind)
              /\ LastCall.err.nil
              /\ LastCall.elems = {pre.optind}
              /\ LastCall.argElem = pre.optind
              /\ optind = pre.optind + 1
              /\ nextChar = <<>>
        /\ Args = orig
        /\ \A i \in Indices(Args, 0) : At(src, i) = i
        /\ \A k, m \in 1..Len(results) :
              k < m => \A i \in results[k].elems : \A j \in results[m].elems : i <= j
        /\ (IsDone(LastCall) /\ optind # Len(Args)) =>
              /\ FoundTerminator(pre)
              /\ optind = ExaminedIndex + 1
              /\ At(Args, optind - 1) = argumentTerminator

\* Witness of C5: under ReturnInOrder a non-option was returned as the
\* argument of the option 1, and a later call consumed "--" and returned Done
\* with elements left.
C5_Witness ==
    /\ WantsReturnInOrder
    /\ ~longOnlyUsed
    /\ FirstDone
    /\ LastCall.term
    /\ optind # Len(Args)
    /\ \E k \in 1..Len(results) :
          /\ IsOpt(results[k])
          /\ results[k].opt.C = Rune1
          /\ results[k].argElem # -1

----------------------------------------------------------------------------
(* C6 *)

\* The scan of ["p", "-acb"] with no registered short option.
ScanOfAcb == orig = <<prog, <<"-", "a", "c", "b">>>> /\ opts = <<>> /\ ~longOnlyUsed

\* C6: a Getopt call that processes a short-option element handles exactly
\* one option character, the leftmost one not yet handled: what it returns
\* names that character, and it leaves either the rest of the element
\* pending with Optind on the element, or nothing pending with Optind past
\* it. A character that is not registered yields UnrecognizedOptionError
\* carrying that character with the prefix "-", and leaves the following
\* characters of the element pending for the next call (Optind moves to the
\* next element when none is left). So "-acb" with no registered short
\* option yields the errors for a, c and b in that order and then Done.
C6_OneCharacterPerCall ==
    /\ ShortCall =>
          /\ ~LastCall.panic
          /\ IsOpt(LastCall) \/ IsErr(LastCall)
          /\ ExaminedIndex \in LastCall.elems
          /\ \/ nextChar = ShortRest /\ nextChar # <<>> /\ optind = ExaminedIndex
             \/ nextChar = <<>> /\ optind > ExaminedIndex
          /\ ~WDispatch =>
                /\ IsOpt(LastCall) => LastCall.opt.C = ShortChar
                /\ IsErr(LastCall) =>
                      LastCall.err.Option = <<ShortChar>> /\ LastCall.err.prefix = dash
          /\ (~WDispatch /\ HasOpt(pre.shortOptions, ShortChar)
                         /\ Disposition(ShortChar) = NoArgument) =>
                /\ LastCall.opt = Opt(ShortChar, NilArg, 0)
                /\ LastCall.err.nil
                /\ nextChar = ShortRest
                /\ optind = ExaminedIndex + (IF ShortRest = <<>> THEN 1 ELSE 0)
          /\ ~HasOpt(pre.shortOptions, ShortChar) =>
                /\ LastCall.err = UnrecognizedOptionError(<<ShortChar>>, dash)
                /\ LastCall.opt.nil
                /\ nextChar = ShortRest
                /\ optind = ExaminedIndex + (IF ShortRest = <<>> THEN 1 ELSE 0)
                /\ LastCall.elems = {At(pre.src, ExaminedIndex)}
    /\ ScanOfAcb =>
          \A k \in 1..Len(results) :
              /\ k <= 3 =>
                    /\ results[k].err = UnrecognizedOptionError(<<At(<<"a", "c", "b">>, k - 1)>>, dash)
                    /\ results[k].opt.nil
              /\ k > 3 => IsDone(results[k])

\* Witness of C6: the scan of "-acb" returned its three errors and then
\* Done, with Optind at the end of the vector.
C6_Witness ==
    /\ ScanOfAcb
    /\ Len(results) = 4
    /\ IsErr(results[3])
    /\ IsDone(LastCall)
    /\ optind = 2

----------------------------------------------------------------------------
(* C7 *)

\* The call handled a short option character registered with hasArg.
ShortOptionWith(hasArg) ==
    /\ ShortCall
    /\ ~WDispatch
    /\ HasOpt(pre.shortOptions, ShortChar)
    /\ Disposition(ShortChar) = hasArg

\* The scan of ["p", "-a", "f1", "f2", "f3"] with the spec "a:".
ScanOfAF123 ==
    /\ orig = <<prog, <<"-", "a">>, <<"f", "1">>, <<"f", "2">>, <<"f", "3">>>>
    /\ opts = <<"a", ":">>
    /\ ~env
    /\ ~longOnlyUsed

\* C7: for a short option registered with a required argument, Opt.Arg is
\* the rest of the current element when that rest is not empty, and
\* otherwise the whole next element of Args, whatever its text; Optind then
\* points past the argument and nothing is left pending. So the scan of
\* ["p", "-a", "f1", "f2", "f3"] with "a:" yields the option a with Arg "f1"
\* and then Done with Args[Optind:] = ["f2", "f3"].
C7_RequiredArgument ==
    /\ (ShortOptionWith(RequiredArgument) /\ ShortRest # <<>>) =>
          /\ LastCall.opt = Opt(ShortChar, ArgCopy(ShortRest), 0)
          /\ LastCall.err.nil
          /\ optind = ExaminedIndex + 1
          /\ nextChar = <<>>
          /\ LastCall.elems = {At(pre.src, ExaminedIndex)}
    /\ (ShortOptionWith(RequiredArgument) /\ ShortRest = <<>>
                                          /\ ExaminedIndex + 1 < Len(pre.Args)) =>
          /\ LastCall.opt = Opt(ShortChar, ArgRef(pre.Args, ExaminedIndex + 1), 0)
          /\ LastCall.opt.Arg.s = At(Args, ExaminedIndex + 1)
          /\ LastCall.opt.Arg.s = At(orig, LastCall.argElem)
          /\ LastCall.err.nil
          /\ optind = ExaminedIndex + 2
          /\ nextChar = <<>>
          /\ LastCall.elems = {At(pre.src, ExaminedIndex), At(pre.src, ExaminedIndex + 1)}
    /\ ScanOfAF123 =>
          /\ \A k \in 1..Len(results) :
                /\ k = 1 => results[k].opt = Opt("a", ArgRef(orig, 2), 0)
                /\ k = 1 => results[k].opt.Arg.s = <<"f", "1">>
                /\ k > 1 => IsDone(results[k])
          /\ Len(results) > 1 => From(Args, optind) = <<<<"f", "2">>, <<"f", "3">>>>

\* Witness of C7: a required argument was taken from the next element
\* although that element starts with '-'.
C7_Witness ==
    /\ ShortOptionWith(RequiredArgument)
    /\ ShortRest = <<>>
    /\ IsOpt(LastCall)
    /\ LastCall.opt.Arg.ref # -1
    /\ At(LastCall.opt.Arg.s, 0) = "-"
    /\ optind = ExaminedIndex + 2

\* Witness of the example of C7: the scan returned the option and then Done.
C7_ExampleWitness ==
    /\ ScanOfAF123
    /\ Len(results) = 2
    /\ IsDone(LastCall)
    /\ optind = 3

----------------------------------------------------------------------------
(* C8 *)

\* The last call, a Getopt/GetoptLong call with long options configured,
\* started on an element that begins with "--" and is not "--" itself: a
\* long-option token.
LongCall ==
    /\ FreshElement
    /\ ~longOnlyUsed
    /\ Len(pre.longOptions) > 0
    /\ HasPrefix(ExaminedElement, argumentTerminator)
    /\ ExaminedElement # argumentTerminator

\* The text of the token after "--", the index of its first '=' (or -1) and
\* the name in it.
LongText == From(ExaminedElement, 2)
LongEq == Index(LongText, "=")
LongName == IF LongEq = -1 THEN LongText ELSE Upto(LongText, LongEq)

\* The table entry the option returned by the last call matched.
MatchedEntry == At(pre.longOptions, LastCall.opt.LongInd)

\* C8: an optional argument is taken only from the same element. For a
\* short option it is the rest of the element, and Opt.Arg is nil when the
\* rest is empty; for a long option it is the text after '=', and Opt.Arg is
\* nil when the token has no '='. In both cases Optind moves past that one
\* element only and Opt.Arg never points at an element of Args, in every
\* ordering mode.
C8_OptionalArgumentSameElement ==
    /\ ShortOptionWith(OptionalArgument) =>
          /\ LastCall.opt = Opt(ShortChar, IF ShortRest = <<>> THEN NilArg
                                           ELSE ArgCopy(ShortRest), 0)
          /\ LastCall.err.nil
          /\ LastCall.argElem = -1
          /\ optind = ExaminedIndex + 1
          /\ nextChar = <<>>
          /\ LastCall.elems = {At(pre.src, ExaminedIndex)}
    /\ ((LongCall \/ (ShortCall /\ WDispatch)) /\ IsOpt(LastCall)) =>
          (MatchedEntry.HasArg = OptionalArgument =>
              /\ LastCall.opt.Arg.ref = -1
              /\ LastCall.argElem = -1)
    /\ (LongCall /\ IsOpt(LastCall)) =>
          (MatchedEntry.HasArg = OptionalArgument =>
              /\ LastCall.opt.Arg = IF LongEq = -1 THEN NilArg
                                    ELSE ArgCopy(From(LongText, LongEq + 1))
              /\ optind = ExaminedIndex + 1
              /\ nextChar = <<>>
              /\ LastCall.elems = {At(pre.src, ExaminedIndex)})
    /\ (LongCall /\ pre.longOptions = LongTable /\ LongName = <<"o">>) =>
          /\ IsOpt(LastCall)
          /\ LastCall.opt.C = "o"
          /\ LastCall.opt.LongInd = 4
          /\ MatchedEntry.HasArg = OptionalArgument

\* Witness of C8: a short option with an optional argument ended its
\* element, a non-option follows it in Args, and Opt.Arg is nil.
C8_Witness ==
    /\ ShortOptionWith(OptionalArgument)
    /\ ShortRest = <<>>
    /\ IsOpt(LastCall)
    /\ LastCall.opt.Arg.nil
    /\ optind < Len(Args)
    /\ nonoption(At(Args, optind))

\* The same for a long option: the token has no '=', a non-option follows
\* it in Args, and Opt.Arg is nil.
C8_LongWitness ==
    /\ LongCall
    /\ IsOpt(LastCall)
    /\ MatchedEntry.HasArg = OptionalArgument
    /\ LongEq = -1
    /\ LastCall.opt.Arg.nil
    /\ optind < Len(Args)
    /\ nonoption(At(Args, optind))

----------------------------------------------------------------------------
(* C9 *)

\* The short option character the call handled is the last character of the
\* last element of Args.
LastCharacterOfArgs == ShortRest = <<>> /\ ExaminedIndex = Len(pre.Args) - 1

\* "option '-a' requires an argument"
TxtARequiresAnArgument ==
    <<"o", "p", "t", "i", "o", "n", " ", "'", "-", "a", "'", " ", "r", "e", "q", "u",
      "i", "r", "e", "s", " ", "a", "n", " ", "a", "r", "g", "u", "m", "e", "n", "t">>

\* C9: when a short option that requires an argument, or the -W trigger with
\* long options configured, is the last character of the last element of
\* Args, Getopt returns ArgumentRequiredError for that character with the
\* prefix "-" and no Opt, with Optind = len(Args) and nothing pending; the
\* text for the option a is "option '-a' requires an argument"; and the call
\* that follows such an error returns Done.
C9_MissingRequiredArgument ==
    /\ (ShortCall /\ LastCharacterOfArgs /\ HasOpt(pre.shortOptions, ShortChar)
          /\ (WDispatch \/ Disposition(ShortChar) = RequiredArgument)) =>
          /\ LastCall.err = ArgumentRequiredError(<<ShortChar>>, dash)
          /\ LastCall.opt.nil
          /\ ErrorText(LastCall.err) =
                TxtOption \o <<"-", ShortChar>> \o TxtRequired
          /\ ShortChar = "a" => ErrorText(LastCall.err) = TxtARequiresAnArgument
          /\ optind = Len(Args)
          /\ nextChar = <<>>
    /\ ~longOnlyUsed =>
          \A k \in 1..(Len(results) - 1) :
              (results[k].err.kind = "ArgumentRequiredError" /\ results[k].err.prefix = dash)
                  => IsDone(results[k + 1])

\* Witness of C9: the option a, which requires an argument, ended the last
\* element of Args; the call returned the error and the next one Done.
C9_Witness ==
    /\ ~longOnlyUsed
    /\ Len(results) >= 2
    /\ IsDone(LastCall)
    /\ results[Len(results) - 1].err = ArgumentRequiredError(<<"a">>, dash)
    /\ ErrorText(results[Len(results) - 1].err) = TxtARequiresAnArgument
    /\ optind <= Len(Args)

\* The same for the -W trigger.
C9_WWitness ==
    /\ ShortCall
    /\ WDispatch
    /\ LastCharacterOfArgs
    /\ IsErr(LastCall)

----------------------------------------------------------------------------
(* C10 *)

\* Two table entries are distinguishable when they differ in HasArg, Flag
\* or Val.
Distinguishable(p, q) == p.HasArg # q.HasArg \/ p.Flag # q.Flag \/ p.Val # q.Val

\* The indices of the entries the name of the token is a prefix of, and the
\* first of them.
PrefixMatches ==
    {i \in Indices(pre.longOptions, 0) : HasPrefix(At(pre.longOptions, i).Name, LongName)}
FirstMatch == CHOOSE i \in PrefixMatches : \A j \in PrefixMatches : i <= j

\* The names of the entries of table at the indices I, in table order.
RECURSIVE NamesOf(_, _, _)
NamesOf(table, I, i) ==
    IF i >= Len(table) THEN <<>>
    ELSE (IF i \in I THEN <<At(table, i).Name>> ELSE <<>>) \o NamesOf(table, I, i + 1)

\* The token has no exact match and two or more distinguishable entries
\* have its name as a prefix.
AmbiguousToken ==
    /\ LongCall
    /\ \A i \in Indices(pre.longOptions, 0) : At(pre.longOptions, i).Name # LongName
    /\ \E i, j \in PrefixMatches :
          Distinguishable(At(pre.longOptions, i), At(pre.longOptions, j))

\* The entries that are distinguishable from every prefix match before them:
\* one entry for each group of entries that cannot be told apart.
FirstOfTheirKind ==
    {i \in PrefixMatches :
        \A j \in PrefixMatches :
            j < i => Distinguishable(At(pre.longOptions, i), At(pre.longOptions, j))}

\* The first prefix match and the later ones distinguishable from the first.
FirstAndThoseUnlikeIt ==
    {i \in PrefixMatches :
        i = FirstMatch \/ Distinguishable(At(pre.longOptions, i),
                                          At(pre.longOptions, FirstMatch))}

\* "option '--on' is ambiguous; possibilities: '--one' '--one-one' '--onto'"
TxtOnIsAmbiguous ==
    <<"o", "p", "t", "i", "o", "n", " ", "'", "-", "-", "o", "n", "'", " ", "i", "s",
      " ", "a", "m", "b", "i", "g", "u", "o", "u", "s", ";", " ", "p", "o", "s", "s",
      "i", "b", "i", "l", "i", "t", "i", "e", "s", ":", " ", "'", "-", "-", "o", "n",
      "e", "'", " ", "'", "-", "-", "o", "n", "e", "-", "o", "n", "e", "'", " ", "'",
      "-", "-", "o", "n", "t", "o", "'">>

\* What every reading of C10 shares: the error, and the message of the
\* example.
AmbiguousErrorReturned ==
    /\ LastCall.err.kind = "AmbiguousOptionError"
    /\ LastCall.err.Option = LongText
    /\ LastCall.err.prefix = argumentTerminator
    /\ LastCall.opt.nil
    /\ (pre.longOptions = ExampleTable /\ LongText = <<"o", "n">>) =>
          ErrorText(LastCall.err) = TxtOnIsAmbiguous

\* C10 as stated: when a long-option token has no exact match and two or
\* more distinguishable entries have its name as a prefix, GetoptLong returns
\* AmbiguousOptionError whose Candidates are exactly those entries' names in
\* table order: all the entries the name is a prefix of, or one entry for
\* each group of entries that cannot be told apart.
C10_CandidatesAreTheMatches ==
    AmbiguousToken =>
        /\ AmbiguousErrorReturned
        /\ \/ LastCall.err.Candidates = NamesOf(pre.longOptions, PrefixMatches, 0)
           \/ LastCall.err.Candidates = NamesOf(pre.longOptions, FirstOfTheirKind, 0)

\* C10 as amended: in that case GetoptLong returns AmbiguousOptionError for
\* the text of the token with the prefix "--", and its Candidates are, in
\* table order, the name of the first entry the token's name is a prefix of
\* and the names of the later such entries that differ from that first one
\* in HasArg, Flag or Val; these are all the entries the name is a prefix of
\* when they are distinguishable from one another, as one, one-one and onto
\* are for "--on". Optind moves past the token.
C10_CandidatesUnlikeTheFirst ==
    AmbiguousToken =>
        /\ AmbiguousErrorReturned
        /\ LastCall.err.Candidates = NamesOf(pre.longOptions, FirstAndThoseUnlikeIt, 0)
        /\ Len(LastCall.err.Candidates) >= 2
        /\ (\A i, j \in PrefixMatches :
               i # j => Distinguishable(At(pre.longOptions, i), At(pre.longOptions, j)))
             => LastCall.err.Candidates = NamesOf(pre.longOptions, PrefixMatches, 0)
        /\ optind = ExaminedIndex + 1
        /\ nextChar = <<>>

\* Witness of C10: "--r" against a table where ra and rb cannot be told
\* apart, nor rc and rd; the candidates are ra, rc and rd.
C10_Witness ==
    /\ AmbiguousToken
    /\ pre.longOptions = LongTable
    /\ LongText = <<"r">>
    /\ LastCall.err.Candidates = <<<<"r", "a">>, <<"r", "c">>, <<"r", "d">>>>

\* Witness of the example of C10: "--on" against one, two, one-one, four,
\* onto.
C10_ExampleWitness ==
    /\ AmbiguousToken
    /\ pre.longOptions = ExampleTable
    /\ LongText = <<"o", "n">>
    /\ ErrorText(LastCall.err) = TxtOnIsAmbiguous

----------------------------------------------------------------------------
(* C11 *)

\* The indices of the entries whose Name is the name of the token.
ExactMatches ==
    {i \in Indices(pre.longOptions, 0) : At(pre.longOptions, i).Name = LongName}

\* What a call returns for a token that matched the entry at index i: the
\* option, or an error about its argument that names the entry.
MatchOf(i) ==
    LET p == At(pre.longOptions, i)
    IN /\ ~LastCall.panic
       /\ IsOpt(LastCall) \/ IsErr(LastCall)
       /\ IsOpt(LastCall) =>
             /\ LastCall.opt.LongInd = i
             /\ LastCall.opt.C = IF p.Flag # NilFlag THEN Rune0 ELSE p.Val
       /\ IsErr(LastCall) =>
             /\ LastCall.err.kind \in {"ArgumentNotAllowedError", "ArgumentRequiredError"}
             /\ LastCall.err.Option = p.Name

\* C11: when the name of a long-option token (the text before the first
\* '=') equals the Name of a table entry, that entry is the match: the call
\* returns that entry's option, or an error about its argument, and never an
\* ambiguity error, however many other entries have the name as a proper
\* prefix and wherever they are in the table.
C11_ExactMatchWins ==
    (LongCall /\ ExactMatches # {}) =>
        /\ \A i \in ExactMatches : (\A j \in ExactMatches : i <= j) => MatchOf(i)
        /\ LastCall.err.kind # "AmbiguousOptionError"

\* Witness of C11: "--a" matched the entry a, which stands in the table
\* between ab and ac, both distinguishable from it.
C11_Witness ==
    /\ LongCall
    /\ ExactMatches = {1}
    /\ IsOpt(LastCall)
    /\ LastCall.opt.LongInd = 1
    /\ \E i, j \in PrefixMatches :
          /\ i < 1 /\ 1 < j
          /\ Distinguishable(At(pre.longOptions, i), At(pre.longOptions, 1))
          /\ Distinguishable(At(pre.longOptions, j), At(pre.longOptions, 1))

----------------------------------------------------------------------------
(* C12 *)

\* The token is an abbreviation: no entry has its name, some have it as a
\* prefix.
Abbreviation == LongCall /\ ExactMatches = {} /\ PrefixMatches # {}

\* The entries the name is a prefix of cannot be told apart.
AllAlike ==
    \A i, j \in PrefixMatches :
        ~Distinguishable(At(pre.longOptions, i), At(pre.longOptions, j))

\* What C12 says whatever the list is: entries that cannot be told apart
\* count as one, so an abbreviation of such entries only is resolved to the
\* first of them, and any other abbreviation is ambiguous.
CollapsedBeforeCounting ==
    /\ AllAlike => MatchOf(FirstMatch)
    /\ ~AllAlike =>
          /\ LastCall.err.kind = "AmbiguousOptionError"
          /\ LastCall.opt.nil

\* C12 as stated: prefix-matching entries that are mutually
\* indistinguishable count as one candidate; the abbreviation is resolved
\* when one candidate remains, and otherwise the ambiguity error lists each
\* surviving candidate once in table order.
C12_SurvivorsListedOnce ==
    Abbreviation =>
        /\ CollapsedBeforeCounting
        /\ ~AllAlike =>
              LastCall.err.Candidates = NamesOf(pre.longOptions, FirstOfTheirKind, 0)

\* C12 as amended: prefix-matching entries that cannot be told apart from
\* the first prefix-matching entry count as one candidate with it; the
\* abbreviation is resolved to that first entry when all of them are such,
\* and otherwise the ambiguity error lists, in table order, the first entry
\* and every later prefix-matching entry that differs from it, also those
\* that cannot be told apart from one another.
C12_LikeTheFirstCollapsed ==
    Abbreviation =>
        /\ CollapsedBeforeCounting
        /\ ~AllAlike =>
              /\ LastCall.err.Candidates =
                    NamesOf(pre.longOptions, FirstAndThoseUnlikeIt, 0)
              /\ \A i \in PrefixMatches :
                    (\E k \in 1..Len(LastCall.err.Candidates) :
                        LastCall.err.Candidates[k] = At(pre.longOptions, i).Name)
                    <=> (i = FirstMatch
                         \/ Distinguishable(At(pre.longOptions, i),
                                            At(pre.longOptions, FirstMatch)))

\* Witness of C12: "--s" is a prefix of sa and sb only, which cannot be told
\* apart, and the call returned the option of sa.
C12_Witness ==
    /\ Abbreviation
    /\ AllAlike
    /\ \E i, j \in PrefixMatches : i # j
    /\ IsOpt(LastCall)
    /\ LastCall.opt.LongInd = FirstMatch

----------------------------------------------------------------------------
(* C13 *)

\* The token of the last call matched the entry at index i, by its name or
\* as an abbreviation the code resolves to it.
Resolved(i) ==
    /\ LongCall
    /\ i \in Indices(pre.longOptions, 0)
    /\ \/ i \in ExactMatches /\ \A j \in ExactMatches : i <= j
       \/ Abbreviation /\ AllAlike /\ i = FirstMatch

\* C13: on a matched long option that requires or optionally takes an
\* argument, the text after the first '=' of the token, possibly empty, is
\* Opt.Arg and Optind moves past the token; a required-argument option given
\* without '=' takes the whole next element of Args as Opt.Arg, whatever its
\* text, and Optind moves past it; when no element is left the call returns
\* ArgumentRequiredError naming the option instead of an Opt.
C13_LongArgumentBinding ==
    \A i \in Indices(pre.longOptions, 0) :
        (Resolved(i) /\ At(pre.longOptions, i).HasArg # NoArgument) =>
            LET p == At(pre.longOptions, i)
                e == ExaminedIndex
            IN /\ LongEq # -1 =>
                     /\ IsOpt(LastCall)
                     /\ LastCall.opt.LongInd = i
                     /\ LastCall.opt.Arg = ArgCopy(From(LongText, LongEq + 1))
                     /\ optind = e + 1
                     /\ LastCall.elems = {At(pre.src, e)}
               /\ (LongEq = -1 /\ p.HasArg = RequiredArgument /\ e + 1 < Len(pre.Args)) =>
                     /\ IsOpt(LastCall)
                     /\ LastCall.opt.LongInd = i
                     /\ LastCall.opt.Arg = ArgRef(pre.Args, e + 1)
                     /\ LastCall.opt.Arg.s = At(Args, e + 1)
                     /\ optind = e + 2
                     /\ LastCall.elems = {At(pre.src, e), At(pre.src, e + 1)}
               /\ (LongEq = -1 /\ p.HasArg = RequiredArgument /\ e + 1 = Len(pre.Args)) =>
                     /\ LastCall.opt.nil
                     /\ LastCall.err = ArgumentRequiredError(p.Name, argumentTerminator)
               /\ nextChar = <<>>

\* Witness of C13: "--o=" bound the empty string to the optional argument
\* of o.
C13_Witness ==
    /\ Resolved(4)
    /\ pre.longOptions = LongTable
    /\ LongEq # -1
    /\ IsOpt(LastCall)
    /\ ~LastCall.opt.Arg.nil
    /\ LastCall.opt.Arg.s = <<>>

\* The other cases of C13: the next element taken, although it is "--"; and
\* no element left.
C13_NextElementWitness ==
    /\ Resolved(0)
    /\ pre.longOptions = LongTable
    /\ LongEq = -1
    /\ IsOpt(LastCall)
    /\ LastCall.opt.Arg.s = argumentTerminator
    /\ optind = ExaminedIndex + 2

C13_MissingWitness ==
    /\ Resolved(0)
    /\ pre.longOptions = LongTable
    /\ LongEq = -1
    /\ LastCall.err = ArgumentRequiredError(<<"r", "a">>, argumentTerminator)

----------------------------------------------------------------------------
(* C14 *)

\* "option '--sample' doesn't allow an argument"
TxtSampleDoesntAllow ==
    <<"o", "p", "t", "i", "o", "n", " ", "'", "-", "-", "s", "a", "m", "p", "l", "e",
      "'", " ", "d", "o", "e", "s", "n", "'", "t", " ", "a", "l", "l", "o", "w", " ",
      "a", "n", " ", "a", "r", "g", "u", "m", "e", "n", "t">>

\* C14: a matched long option with HasArg = NoArgument given as name=value
\* yields ArgumentNotAllowedError naming the option, "option '--sample'
\* doesn't allow an argument" for "--sample=arg"; the element is consumed
\* (Optind is past it and nothing is pending, so the next call goes on with
\* the following element) and no flag variable is written.
C14_ArgumentNotAllowed ==
    \A i \in Indices(pre.longOptions, 0) :
        (Resolved(i) /\ At(pre.longOptions, i).HasArg = NoArgument /\ LongEq # -1) =>
            /\ LastCall.err =
                  ArgumentNotAllowedError(At(pre.longOptions, i).Name, argumentTerminator)
            /\ LastCall.opt.nil
            /\ ErrorText(LastCall.err) =
                  TxtOption \o argumentTerminator \o At(pre.longOptions, i).Name
                            \o TxtNotAllowed
            /\ pre.longOptions = SampleTable =>
                  ErrorText(LastCall.err) = TxtSampleDoesntAllow
            /\ optind = ExaminedIndex + 1
            /\ nextChar = <<>>
            /\ LastCall.elems = {At(pre.src, ExaminedIndex)}
            /\ flags = pre.flags

\* Witness of C14: "--fl=v", where fl has a Flag, was refused, the flag
\* variable is still zero and an element follows.
C14_Witness ==
    /\ Resolved(5)
    /\ pre.longOptions = LongTable
    /\ LongEq # -1
    /\ LastCall.err.kind = "ArgumentNotAllowedError"
    /\ flags = ZeroFlags
    /\ optind < Len(Args)

\* Witness of the example of C14.
C14_ExampleWitness ==
    /\ Resolved(0)
    /\ pre.longOptions = SampleTable
    /\ ErrorText(LastCall.err) = TxtSampleDoesntAllow

----------------------------------------------------------------------------
(* C15 *)

\* The flag variables as they are after entry p was reported.
FlagsAfter(p) ==
    IF p.Flag # NilFlag THEN [pre.flags EXCEPT ![p.Flag] = p.Val] ELSE pre.flags

\* C15: when a long-option token is the exact name or the sole candidate
\* abbreviation of table entry i, the returned option has LongInd = i; with
\* a Flag in the entry, *Flag is Val afterwards and C is 0; without one, C
\* is Val and the flag variables are as before.  A flag variable changes
\* only in a call that returns the option of an entry with that Flag: never
\* in a call that returns an error or Done or the option of another entry.
C15_FlagOrVal ==
    /\ \A i \in Indices(pre.longOptions, 0) :
          (Resolved(i) /\ IsOpt(LastCall)) =>
              LET p == At(pre.longOptions, i)
              IN /\ LastCall.opt.LongInd = i
                 /\ LastCall.opt.C = IF p.Flag # NilFlag THEN Rune0 ELSE p.Val
                 /\ flags = FlagsAfter(p)
    /\ (Called /\ flags # pre.flags) =>
          /\ IsOpt(LastCall)
          /\ LastCall.opt.LongInd \in Indices(pre.longOptions, 0)
          /\ MatchedEntry.Flag # NilFlag
          /\ flags = FlagsAfter(MatchedEntry)

\* Witness of C15: "--f", the sole abbreviation of fl, set the flag
\* variable of fl to its Val and returned C = 0 with LongInd = 5.
C15_Witness ==
    /\ Resolved(5)
    /\ pre.longOptions = LongTable
    /\ ExactMatches = {}
    /\ IsOpt(LastCall)
    /\ LastCall.opt.LongInd = 5
    /\ LastCall.opt.C = Rune0
    /\ pre.flags[1] = Rune0
    /\ flags[1] = "F"

\* Witness of C15: an entry without a Flag was returned after the flag
\* variable had been set by an earlier call, and the variable kept its value.
C15_NoFlagWitness ==
    /\ Resolved(4)
    /\ pre.longOptions = LongTable
    /\ IsOpt(LastCall)
    /\ LastCall.opt.C = "o"
    /\ flags[1] = "F"

----------------------------------------------------------------------------
(* C16 *)

RECURSIVE CharsFrom(_, _)
\* The size of args[i:]: its characters, and one more for each element.
CharsFrom(args, i) ==
    IF i >= Len(args) THEN 0 ELSE Len(At(args, i)) + 1 + CharsFrom(args, i + 1)

\* The index of the first element the scanner g has not touched.
AheadIndex(g) == IF g.nextChar # <<>> THEN g.optind + 1 ELSE g.optind

\* What the scanner g has left to scan: the pending option characters and
\* the elements from optind on.
Unscanned(g) == Len(g.nextChar) + CharsFrom(g.Args, AheadIndex(g))

\* No call since New/Reset has returned Done.
NoDoneYet == \A m \in 1..Len(results) : ~IsDone(results[m])

\* The original indices of the elements reported in errors so far.
ErrorElems ==
    UNION {Reported(results[m]) : m \in {n \in 1..Len(results) : IsErr(results[n])}}

\* The original indices of the elements the scanner has not touched.
Ahead == {At(src, i) : i \in Indices(Args, AheadIndex(G))}

\* C16: a Getopt/GetoptLong call never aborts, and one that returns an
\* error has consumed what it complains about: the next call goes on with
\* the characters after the offending one in the same element, or with an
\* element after the offending one, and no element reported in an error is
\* ahead of the scanner again.  Every call that returns an option or an
\* error leaves strictly less to scan, so that the calls made before the
\* first Done are at most as many as the size of the argument vector.
C16_ErrorsConsumeAndScanEnds ==
    (Called /\ ~longOnlyUsed) =>
        /\ ~LastCall.panic
        /\ IsErr(LastCall) =>
              /\ LastCall.opt.nil
              /\ IF nextChar # <<>>
                 THEN ShortCall /\ optind = ExaminedIndex /\ nextChar = ShortRest
                 ELSE ExaminedIndex < optind /\ optind <= Len(Args)
        /\ ErrorElems \cap Ahead = {}
        /\ (IsOpt(LastCall) \/ IsErr(LastCall)) => Unscanned(G) < Unscanned(pre)
        /\ NoDoneYet => Len(results) + Unscanned(G) <= CharsFrom(orig, 1)

\* Witness of C16: three calls on one element each returned an error for
\* another of its characters, and the fourth returned Done.
C16_Witness ==
    /\ ~longOnlyUsed
    /\ Len(results) = 4
    /\ \A m \in 1..3 : IsErr(results[m]) /\ results[m].elems = results[1].elems
    /\ IsDone(results[4])
    /\ Unscanned(G) = 0

\* Witness of C16: an error about a long option was followed by an error
\* about the element after it.
C16_LongWitness ==
    /\ ~longOnlyUsed
    /\ Len(results) >= 2
    /\ IsErr(results[1]) /\ IsErr(LastCall)
    /\ LongCall
    /\ results[1].elems \cap LastCall.elems = {}

----------------------------------------------------------------------------
(* C17 *)

\* "-W "
prefixW == <<"-", "W", " ">>

\* The last call, a Getopt/GetoptLong call, started on the element "-WX".
SingleW ==
    /\ ShortCall /\ WDispatch
    /\ pre.nextChar = <<>>
    /\ Len(ExaminedElement) > 2

\* The last call, a Getopt/GetoptLong call, started on the element "-W"
\* with an element X after it.
PairW ==
    /\ ShortCall /\ WDispatch
    /\ pre.nextChar = <<>>
    /\ Len(ExaminedElement) = 2
    /\ ExaminedIndex + 1 < Len(pre.Args)

\* The scanner before the call with "--X" in the place of "-WX".
SingleAsLong ==
    [pre EXCEPT !.Args[ExaminedIndex + 1] = argumentTerminator \o From(ExaminedElement, 2)]

\* The scanner before the call with "--X" in the place of "-W" "X".
PairAsLong ==
    [pre EXCEPT !.Args = Upto(pre.Args, ExaminedIndex)
                           \o <<argumentTerminator \o At(pre.Args, ExaminedIndex + 1)>>
                           \o From(pre.Args, ExaminedIndex + 2),
                !.src = Upto(pre.src, ExaminedIndex) \o From(pre.src, ExaminedIndex + 1)]

\* The last call did what the call r on "--X" does, shift elements further
\* on in Args, but for the prefix of the error.
SameAsLong(r, shift) ==
    /\ ~LastCall.panic /\ ~r.panic
    /\ LastCall.opt.nil = r.opt.nil
    /\ LastCall.opt.C = r.opt.C
    /\ LastCall.opt.LongInd = r.opt.LongInd
    /\ LastCall.opt.Arg.nil = r.opt.Arg.nil
    /\ LastCall.opt.Arg.s = r.opt.Arg.s
    /\ LastCall.opt.Arg.ref = IF r.opt.Arg.ref = -1 THEN -1 ELSE r.opt.Arg.ref + shift
    /\ flags = r.g.flags
    /\ LastCall.err = IF r.err.nil THEN NilErr ELSE [r.err EXCEPT !.prefix = prefixW]
    /\ ~r.err.nil => r.err.prefix = argumentTerminator
    /\ optind = r.g.optind + shift
    /\ nextChar = r.g.nextChar

\* What C17 says of "-WX" and of "-W" without long options.
SingleOrPlainW ==
    /\ SingleW => SameAsLong(getoptInternal(SingleAsLong, FALSE), 0)
    /\ (ShortCall /\ ShortChar = "W" /\ pre.shortOptions.W /\ pre.longOptions = <<>>) =>
          /\ LastCall.opt = Opt("W", NilArg, 0)
          /\ LastCall.err.nil
          /\ nextChar = ShortRest
          /\ nextChar = <<>> => optind = ExaminedIndex + 1

\* C17 as claimed: with "W;" in the short spec and long options configured,
\* the element "-WX" and the pair of elements "-W" "X" give what the element
\* "--X" gives in their place, for any X: the same C, Arg and LongInd, the
\* same flag variables, an error of the same kind and Option but with prefix
\* "-W ", and the same elements consumed, the argument element included.
\* With no long options, "-W" is returned as the option 'W' without an
\* argument and the element after it is left to the next call.
C17_WIsLongForAnyX ==
    /\ SingleOrPlainW
    /\ PairW => SameAsLong(getoptInternal(PairAsLong, FALSE), 1)

\* C17, amended: the same, for the pair "-W" "X" only when X is not the
\* empty string.
C17_WIsLong ==
    /\ SingleOrPlainW
    /\ (PairW /\ At(pre.Args, ExaminedIndex + 1) # <<>>) =>
          SameAsLong(getoptInternal(PairAsLong, FALSE), 1)

\* Witness of C17: "-W" "ra" with an element after them returned the option
\* of ra with that element as its argument.
C17_Witness ==
    /\ PairW
    /\ At(pre.Args, ExaminedIndex + 1) = <<"r", "a">>
    /\ IsOpt(LastCall)
    /\ LastCall.opt.LongInd = 0
    /\ LastCall.opt.Arg.ref = ExaminedIndex + 2
    /\ optind = ExaminedIndex + 3

\* Witness of C17: "-Wfl" set the flag variable of fl.
C17_SingleWitness ==
    /\ SingleW
    /\ ShortRest = <<"f", "l">>
    /\ IsOpt(LastCall)
    /\ pre.flags[1] = Rune0
    /\ flags[1] = "F"

\* Witness of C17: an error with prefix "-W ".
C17_ErrorWitness ==
    /\ PairW
    /\ LastCall.err = UnrecognizedOptionError(<<"z", "z">>, prefixW)

\* Witness of C17: "-W" without long options.
C17_PlainWitness ==
    /\ ShortCall /\ ShortChar = "W" /\ pre.shortOptions.W /\ pre.longOptions = <<>>
    /\ LastCall.opt = Opt("W", NilArg, 0)
    /\ optind < Len(Args)

----------------------------------------------------------------------------
(* C18 *)

\* GetoptLongOnly has been called and the last call started on an element
\* "-name" with long options configured.
LongOnlyElement ==
    /\ Called
    /\ longOnlyUsed
    /\ FreshElement
    /\ Len(pre.longOptions) > 0
    /\ ~nonoption(ExaminedElement)
    /\ At(ExaminedElement, 1) # "-"

\* The text of that element after the '-', and its name: the text before
\* the first '='.
OnlyText == From(ExaminedElement, 1)
OnlyEq == Index(OnlyText, "=")
OnlyName == IF OnlyEq = -1 THEN OnlyText ELSE Upto(OnlyText, OnlyEq)

\* What the call does with the short option characters of the element: what
\* Getopt does with it.
AsShortOptions == getoptInternal(pre, FALSE)

\* The last call did what the call r does.
SameAs(r) ==
    /\ LastCall.panic = r.panic
    /\ LastCall.opt = r.opt
    /\ LastCall.err = r.err
    /\ optind = r.g.optind
    /\ nextChar = r.g.nextChar
    /\ flags = r.g.flags

\* C18: in long-only mode an element "-f", f a registered short option
\* character, is processed as the short option f and not as the
\* abbreviation of a long option: the call does what Getopt does with the
\* element.
C18_SingleCharacterIsShort ==
    (LongOnlyElement /\ Len(ExaminedElement) = 2
       /\ HasOpt(pre.shortOptions, At(ExaminedElement, 1))) =>
        SameAs(AsShortOptions)

----------------------------------------------------------------------------
(* C19 *)

\* The one call made since New/Reset was a GetoptLongOnly call on an
\* element "-name" other than a single registered short option character.
LongOnlyCall ==
    /\ LongOnlyElement
    /\ Len(results) = 1
    /\ ~(Len(ExaminedElement) = 2 /\ HasOpt(pre.shortOptions, At(ExaminedElement, 1)))

\* The scanner before the call with "--name" in the place of "-name".
OnlyAsLong == [pre EXCEPT !.Args[ExaminedIndex + 1] = dash \o ExaminedElement]

\* The name matches no long option, exactly or as an abbreviation, and its
\* first character is a registered short option.
FallsThrough ==
    /\ \A i \in Indices(pre.longOptions, 0) :
          ~HasPrefix(At(pre.longOptions, i).Name, OnlyName)
    /\ HasOpt(pre.shortOptions, At(OnlyText, 0))

\* C19: GetoptLongOnly resolves an element "-name" as it resolves "--name",
\* with prefix '-' in the errors: the same Opt for a match, and for an
\* ambiguous abbreviation, an unrecognized name that cannot be a short
\* option, a forbidden '=' argument or a missing required argument the
\* corresponding error, returned by that same call.  Only a name that
\* matches no long option and starts with a registered short option
\* character is processed as short options.
C19_LongOnlyResolvesAsLong ==
    LongOnlyCall =>
        IF FallsThrough THEN SameAs(AsShortOptions)
        ELSE LET r == getoptInternal(OnlyAsLong, TRUE)
             IN /\ ~LastCall.panic
                /\ LastCall.opt = r.opt
                /\ LastCall.err = IF r.err.nil THEN NilErr ELSE [r.err EXCEPT !.prefix = dash]
                /\ optind = r.g.optind
                /\ nextChar = r.g.nextChar
                /\ flags = r.g.flags

----------------------------------------------------------------------------
(* C20 *)

\* The short spec starts with an ordering prefix.
Prefixed == HasPrefix(opts, <<"+">>) \/ HasPrefix(opts, <<"-">>)

\* The short spec without its ordering prefix and without one ':' directly
\* after the prefix.
Unprefixed ==
    IF HasPrefix(From(opts, 1), <<":">>) THEN From(opts, 2) ELSE From(opts, 1)

C20_ColonWitness ==
    /\ opts = <<"+", ":", "a", ":", "W", ";">>
    /\ shortOptions.Ordering = RequireOrder
    /\ DOMAIN shortOptions.Opts = {"a", "W"}
    /\ shortOptions.Opts["a"] = RequiredArgument
    /\ shortOptions.W

\* Witness of C20: no prefix and POSIXLY_CORRECT set.
C20_EnvWitness ==
    /\ env /\ ~Prefixed
    /\ shortOptions.Ordering = RequireOrder

----------------------------------------------------------------------------
(* C21 *)

\* The short spec after its ordering prefix and the ':' after that.
Body ==
    LET o1 == IF Prefixed THEN From(opts, 1) ELSE opts
    IN IF HasPrefix(o1, <<":">>) THEN From(o1, 1) ELSE o1

\* Body has an option letter at index i: a character other than ':' that is
\* not the ';' of "W;".
LetterAt(i) ==
    /\ At(Body, i) # ":"
    /\ ~(At(Body, i) = ";" /\ i > 0 /\ At(Body, i - 1) = "W")

\* The letter at index i is the W of "W;".
TriggerAt(i) ==
    At(Body, i) = "W" /\ i + 1 < Len(Body) /\ At(Body, i + 1) = ";"

\* The number of colons directly after index i, two at most.
ColonsAfter(i) ==
    IF i + 1 < Len(Body) /\ At(Body, i + 1) = ":"
    THEN IF i + 2 < Len(Body) /\ At(Body, i + 2) = ":" THEN 2 ELSE 1
    ELSE 0

\* The colon at index i is the first or second colon after an option letter.
MarkingColon(i) ==
    /\ At(Body, i) = ":"
    /\ \/ i >= 1 /\ LetterAt(i - 1)
       \/ i >= 2 /\ At(Body, i - 1) = ":" /\ LetterAt(i - 2)

\* Every colon of Body marks an argument.
ColonsAllMark == \A i \in Indices(Body, 0) : At(Body, i) = ":" => MarkingColon(i)

\* "unrecognized option '-:'"
TxtUnrecognizedColon ==
    <<"u", "n", "r", "e", "c", "o", "g", "n", "i", "z", "e", "d", " ", "o", "p", "t",
      "i", "o", "n", " ", "'", "-", ":", "'">>

\* C21: an option letter of the short spec that occurs once in it is
\* registered with NoArgument when no colon follows it, RequiredArgument
\* when one colon follows and OptionalArgument when two follow.  When every
\* colon of the spec marks an argument in this way, ':' is not registered
\* and the registered characters are the letters; so with "ab:W;" the ':'
\* of "-a:" is reported by UnrecognizedOptionError, as "unrecognized option
\* '-:'", by the call after the one that returned a.
C21_ColonsGiveDisposition ==
    /\ \A i \in Indices(Body, 0) :
          (/\ LetterAt(i) /\ ~TriggerAt(i)
           /\ \A j \in Indices(Body, 0) : At(Body, j) = At(Body, i) => j = i) =>
              /\ HasOpt(shortOptions, At(Body, i))
              /\ shortOptions.Opts[At(Body, i)] =
                    CASE ColonsAfter(i) = 0 -> NoArgument
                      [] ColonsAfter(i) = 1 -> RequiredArgument
                      [] ColonsAfter(i) = 2 -> OptionalArgument
    /\ ColonsAllMark =>
          DOMAIN shortOptions.Opts = {At(Body, i) : i \in {j \in Indices(Body, 0) : LetterAt(j)}}
    /\ (ShortCall /\ ColonsAllMark /\ ShortChar = ":") =>
          /\ LastCall.err = UnrecognizedOptionError(<<":">>, dash)
          /\ ErrorText(LastCall.err) = TxtUnrecognizedColon
          /\ LastCall.opt.nil

\* Witness of C21: "-a:" with "ab:W;" gave a and then the error for ':'.
C21_Witness ==
    /\ opts = <<"a", "b", ":", "W", ";">>
    /\ orig = <<prog, <<"-", "a", ":">>>>
    /\ Len(results) = 2
    /\ results[1].opt = Opt("a", NilArg, 0)
    /\ LastCall.err = UnrecognizedOptionError(<<":">>, dash)
    /\ shortOptions.Opts["b"] = RequiredArgument

\* Witness of C21: a letter with two colons.
C21_OptionalWitness ==
    /\ opts = <<"W", ":", ":">>
    /\ shortOptions.Opts = [c \in {"W"} |-> OptionalArgument]
    /\ Called /\ LastCall.opt = Opt("W", ArgCopy(<<":">>), 0)

----------------------------------------------------------------------------
(* C22 *)

\* The table that registers each character of cs with NoArgument.
Plain(cs) == [c \in cs |-> NoArgument]

\* "unrecognized option '-;'"
TxtUnrecognizedSemicolon ==
    <<"u", "n", "r", "e", "c", "o", "g", "n", "i", "z", "e", "d", " ", "o", "p", "t",
      "i", "o", "n", " ", "'", "-", ";", "'">>

\* C22: the W trigger is on exactly when the spec has a 'W' directly
\* followed by ';'.  That W is registered with NoArgument, and ';' is
\* registered only where it stands as a letter of its own, so that with
\* "ab:W;" the ';' of "-a;" is reported as "unrecognized option '-;'" by the
\* call after the one that returned a.  ";W" and "w;" register ';' as a
\* no-argument letter with the trigger off; "W:" and "W::" register W with a
\* required and an optional argument with the trigger off; "W;:" turns the
\* trigger on and registers W and ':' as no-argument letters.
C22_TriggerOnlyForWSemicolon ==
    /\ shortOptions.W = (\E i \in Indices(Body, 0) : TriggerAt(i))
    /\ \A i \in Indices(Body, 0) :
          (TriggerAt(i) /\ \A j \in Indices(Body, 0) : At(Body, j) = "W" => j = i) =>
              /\ HasOpt(shortOptions, "W")
              /\ shortOptions.Opts["W"] = NoArgument
    /\ HasOpt(shortOptions, ";") =
          (\E j \in Indices(Body, 0) : LetterAt(j) /\ At(Body, j) = ";")
    /\ (HasOpt(shortOptions, ";") /\ \A j \in Indices(Body, 0) : ~MarkingColon(j)) =>
          shortOptions.Opts[";"] = NoArgument
    /\ Body = <<";", "W">> => ~shortOptions.W /\ shortOptions.Opts = Plain({";", "W"})
    /\ Body = <<"w", ";">> => ~shortOptions.W /\ shortOptions.Opts = Plain({"w", ";"})
    /\ Body = <<"W", ":">> =>
          ~shortOptions.W /\ shortOptions.Opts = [c \in {"W"} |-> RequiredArgument]
    /\ Body = <<"W", ":", ":">> =>
          ~shortOptions.W /\ shortOptions.Opts = [c \in {"W"} |-> OptionalArgument]
    /\ Body = <<"W", ";", ":">> => shortOptions.W /\ shortOptions.Opts = Plain({"W", ":"})
    /\ Body = <<"W", ";">> => shortOptions.W /\ shortOptions.Opts = Plain({"W"})
    /\ (ShortCall /\ ShortChar = ";" /\ ~HasOpt(pre.shortOptions, ";")) =>
          /\ LastCall.err = UnrecognizedOptionError(<<";">>, dash)
          /\ ErrorText(LastCall.err) = TxtUnrecognizedSemicolon
          /\ LastCall.opt.nil

\* Witness of C22: "-a;" with "ab:W;" gave a and then the error for ';'.
C22_Witness ==
    /\ opts = <<"a", "b", ":", "W", ";">>
    /\ shortOptions.W
    /\ orig = <<prog, <<"-", "a", ";">>>>
    /\ Len(results) = 2
    /\ results[1].opt = Opt("a", NilArg, 0)
    /\ LastCall.err = UnrecognizedOptionError(<<";">>, dash)

\* Witness of C22: with "w;" the ';' is an option.
C22_LetterWitness ==
    /\ opts = <<"w", ";">>
    /\ ~shortOptions.W
    /\ Called /\ LastCall.opt = Opt(";", NilArg, 0)

\* Witness of C22: with "W;:" the ':' is an option.
C22_ColonWitness ==
    /\ opts = <<"W", ";", ":">>
    /\ shortOptions.W
    /\ Called /\ LastCall.opt = Opt(":", NilArg, 0)

----------------------------------------------------------------------------
(* C23 *)

\* Body has a colon at index i that is not the first or second colon after
\* an option letter.
StrayColon(i) == At(Body, i) = ":" /\ ~MarkingColon(i)

RECURSIVE WithoutStrayColons(_)
\* Body from index i on without its stray colons.
WithoutStrayColons(i) ==
    IF i >= Len(Body) THEN <<>>
    ELSE (IF StrayColon(i) THEN <<>> ELSE <<At(Body, i)>>) \o WithoutStrayColons(i + 1)

\* The table of Body without its stray colons.
TableWithoutStrayColons ==
    parseLoop(WithoutStrayColons(0), 0,
              [Ordering |-> shortOptions.Ordering, W |-> FALSE, Opts |-> <<>>])

\* A table was built, and the characters other than ':' are registered as
\* they are without the stray colons.
StrayColonsLeaveTheRest ==
    /\ shortOptions.Ordering \in {RequireOrder, Permute, ReturnInOrder}
    /\ shortOptions.W = TableWithoutStrayColons.W
    /\ DOMAIN shortOptions.Opts \ {":"} = DOMAIN TableWithoutStrayColons.Opts
    /\ \A c \in DOMAIN TableWithoutStrayColons.Opts :
          shortOptions.Opts[c] = TableWithoutStrayColons.Opts[c]

\* C23 as claimed: building the table never fails, and a colon that is not
\* the first or second colon after an option letter (a third colon after a
\* letter, a colon after "W;", a second colon at the start of the spec) is
\* ignored: the table is the one of the spec without it, and ':' is not
\* registered as an option character.
C23_StrayColonsIgnored ==
    /\ StrayColonsLeaveTheRest
    /\ ~HasOpt(shortOptions, ":")

\* C23, amended: building the table never fails, and such a colon has no
\* effect on how the other characters are registered, but it is itself
\* registered: ':' is an option character exactly when the spec has a colon
\* of this kind, and a call that meets ':' in an element then returns it as
\* an option.
C23_StrayColonsRegistered ==
    /\ StrayColonsLeaveTheRest
    /\ HasOpt(shortOptions, ":") = (\E i \in Indices(Body, 0) : StrayColon(i))
    /\ (ShortCall /\ ShortChar = ":" /\ \E i \in Indices(Body, 0) : StrayColon(i)) =>
          /\ IsOpt(LastCall) \/ LastCall.err.kind = "ArgumentRequiredError"
          /\ IsOpt(LastCall) => LastCall.opt.C = ":"

\* Witness of C23: with "a:::" the third colon is an option character, and
\* the ':' of "-W:" was returned as an option.
C23_Witness ==
    /\ opts = <<"a", ":", ":", ":">>
    /\ shortOptions.Opts = [c \in {"a", ":"} |-> IF c = "a" THEN OptionalArgument ELSE NoArgument]
    /\ Called /\ LastCall.opt = Opt(":", NilArg, 0)

\* Witness of C23: a second colon at the start of the spec.
C23_StartWitness ==
    /\ opts = <<"+", ":", ":", "a">>
    /\ shortOptions.Opts = Plain({":", "a"})
    /\ Called /\ LastCall.opt = Opt(":", NilArg, 0)

----------------------------------------------------------------------------
(* C24 *)

\* The original indices of the elements the calls of the iterator consumed.
IterConsumed == UNION {iter.calls[m].elems : m \in 1..Len(iter.calls)}

RECURSIVE OperandsFrom(_)
\* The elements of the original vector from index i on that the iterator
\* did not consume, in their original order.
OperandsFrom(i) ==
    IF i >= Len(orig) THEN <<>>
    ELSE (IF i \in IterConsumed THEN <<>> ELSE <<At(orig, i)>>) \o OperandsFrom(i + 1)

\* C24: the iterator yields, in order, the results that successive Getopt
\* calls on a scanner of the same input return, each an option with a nil
\* error or an error with a nil option; it goes on after an error and
\* leaves its loop when Getopt returns Done, and then remaining is
\* Args[Optind:], the elements of the vector that were not consumed as
\* options, arguments or "--", in their original order.  (Vectors with the
\* program name at index 0.)
C24_IterateYieldsGetoptResults ==
    (iter.state # "none" /\ Len(orig) >= 1) =>
        /\ iter.state # "panic"
        /\ \A k \in 1..Len(iter.yielded) :
              /\ iter.yielded[k].opt.nil # iter.yielded[k].err.nil
              /\ k <= Len(results) =>
                    /\ iter.yielded[k].opt = results[k].opt
                    /\ iter.yielded[k].err = results[k].err
        /\ iter.state = "running" => Len(iter.calls) = Len(iter.yielded)
        /\ (iter.state = "finished" /\ Len(results) > Len(iter.yielded)) =>
              IsDone(results[Len(iter.yielded) + 1])
        /\ iter.state = "finished" =>
              /\ Len(iter.calls) = Len(iter.yielded) + 1
              /\ IsDone(Last(iter.calls))
        /\ iter.state \in {"finished", "broken"} =>
              /\ ~iter.remaining.nil
              /\ iter.remaining.s = From(iter.g.Args, iter.g.optind)
        /\ iter.state = "finished" => iter.remaining.s = OperandsFrom(1)
        /\ iter.state = "running" => iter.remaining.nil

\* Witness of C24: the example, ["prg","-a","arg1","-b","arg2"] with "ab".
C24_Witness ==
    /\ iter.state = "finished"
    /\ opts = <<"a", "b">>
    /\ Len(orig) = 5
    /\ Len(iter.yielded) = 2
    /\ iter.yielded[1] = [opt |-> Opt("a", NilArg, 0), err |-> NilErr]
    /\ iter.yielded[2] = [opt |-> Opt("b", NilArg, 0), err |-> NilErr]
    /\ iter.remaining.s = << <<"a", "r", "g", "1">>, <<"a", "r", "g", "2">> >>
    /\ Len(results) = 3

\* Witness of C24: the iterator went on after an error, "-acb" with "".
C24_ErrorWitness ==
    /\ iter.state = "finished"
    /\ Len(iter.yielded) = 3
    /\ \A k \in 1..3 : iter.yielded[k].err.kind = "UnrecognizedOptionError"
    /\ iter.yielded[3].err.Option = <<"b">>

----------------------------------------------------------------------------
(* C25 *)

RECURSIVE RunAlone(_, _)
\* n successive Getopt calls on the scanner g, nothing else happening: the
\* scanner they leave and their records.
RunAlone(g, n) ==
    IF n = 0 THEN [g |-> g, results |-> <<>>]
    ELSE LET p == RunAlone(g, n - 1)
             r == getoptInternal(p.g, FALSE)
         IN [g |-> r.g, results |-> Append(p.results, Entry(p.g, r))]

\* The first instance as New/NewLong made it.
FirstInit ==
    NewOf([args |-> orig, opts |-> opts, long |-> longOptions, env |-> env])

\* C25: with two instances over vectors of their own, whatever the order of
\* their Getopt calls, each instance has returned the results, and has the
\* Args and Optind, that it has after as many calls made alone.
C25_InstancesDoNotInterfere ==
    other.made =>
        LET a == RunAlone(FirstInit, Len(results))
            b == RunAlone(other.init, Len(other.results))
        IN /\ results = a.results
           /\ Args = a.g.Args
           /\ optind = a.g.optind
           /\ other.results = b.results
           /\ other.g.Args = b.g.Args
           /\ other.g.optind = b.g.optind

\* Witness of C25: both instances have permuted their vectors and reached
\* Done, the second one having set a flag variable in between the calls of
\* the first.
C25_Witness ==
    /\ other.made
    /\ Called /\ IsDone(LastCall) /\ Args # orig
    /\ other.results # <<>> /\ IsDone(Last(other.results))
    /\ other.g.Args # other.init.Args
    /\ flags[1] = "F"
    /\ Len(results) >= 2 /\ Len(other.results) >= 2

----------------------------------------------------------------------------
(* C26 *)

\* 0 <= firstNonopt <= lastNonopt <= optind <= len(Args)
IndicesInOrder ==
    /\ 0 <= firstNonopt
    /\ firstNonopt <= lastNonopt
    /\ lastNonopt <= optind
    /\ optind <= Len(Args)

\* C26 as claimed: after New/Reset and after every Getopt call, whatever
\* it returned, Done included, 0 <= firstNonopt <= lastNonopt <= optind <=
\* len(Args).
C26_IndicesInOrder ==
    ~longOnlyUsed => IndicesInOrder

\* C26, amended: the same after New/Reset and after every Getopt call that
\* returned an option or an error.  After a call that returned Done,
\* 0 <= firstNonopt <= lastNonopt <= len(Args) and firstNonopt <= optind <=
\* len(Args): where non-options were skipped and moved behind the options,
\* or follow "--", optind is back at firstNonopt, the first of them, below
\* lastNonopt.  (Vectors with the program name at index 0.)
C26_IndicesInOrderUntilDone ==
    (Len(orig) >= 1 /\ ~longOnlyUsed) =>
        IF Called /\ IsDone(LastCall)
        THEN /\ 0 <= firstNonopt
             /\ firstNonopt <= lastNonopt
             /\ lastNonopt <= Len(Args)
             /\ firstNonopt <= optind
             /\ optind <= Len(Args)
             /\ optind < lastNonopt =>
                   /\ optind = firstNonopt
                   /\ \A i \in firstNonopt..(Len(Args) - 1) : At(src, i) \notin OptionElems(Len(results))
        ELSE IndicesInOrder

\* Witness of C26: options were returned behind a skipped non-option, with
\* the indices in order, all different and below len(Args).
C26_Witness ==
    /\ Called /\ IsOpt(LastCall) /\ ~longOnlyUsed
    /\ 0 < firstNonopt /\ firstNonopt < lastNonopt /\ lastNonopt < optind
    /\ optind < Len(Args)

\* Witness of C26: Done with optind back at the first of the non-options.
C26_DoneWitness ==
    /\ Called /\ IsDone(LastCall) /\ ~longOnlyUsed
    /\ optind = firstNonopt /\ optind < lastNonopt
    /\ Len(results) >= 2

----------------------------------------------------------------------------
(* C27 *)

\* The last call returned an error.
ErrCall == Called /\ ~LastCall.panic /\ IsErr(LastCall)

\* The text X that a -W dispatch hands to the long-option step: the rest of
\* the element behind the W, or the next element.
WText ==
    IF ShortRest # <<>> THEN ShortRest ELSE At(pre.Args, ExaminedIndex + 1)

\* The character is the -W trigger and there is a text X; the call, a
\* Getopt/GetoptLong call, dispatched -W to the long-option step.
WHasText == WDispatch /\ (ShortRest # <<>> \/ ExaminedIndex + 1 < Len(pre.Args))
WCall == ShortCall /\ WHasText

\* The name in a token: the text before its first '='.
NameIn(token) ==
    IF Index(token, "=") = -1 THEN token ELSE Upto(token, Index(token, "="))

\* The names of the entries that a token can have matched: the name itself
\* if it is the Name of an entry, else the Names it is a prefix of.
MatchedNames(token) ==
    LET names == {At(pre.longOptions, i).Name : i \in Indices(pre.longOptions, 0)}
    IN IF NameIn(token) \in names THEN {NameIn(token)}
       ELSE {n \in names : HasPrefix(n, NameIn(token))}

\* The error of the last call is an error of the long-option step for the
\* token, introduced with the prefix: UnrecognizedOption and AmbiguousOption
\* carry the token, ArgumentNotAllowed and ArgumentRequired the Name of the
\* matched entry, and each renders with its text.
LongErrorFor(prefix, token) ==
    LET e == LastCall.err
    IN /\ e.prefix = prefix
       /\ CASE e.kind = "UnrecognizedOptionError" ->
                 /\ e.Option = token
                 /\ ErrorText(e) = TxtUnrecognized \o prefix \o token \o <<"'">>
            [] e.kind = "AmbiguousOptionError" ->
                 /\ e.Option = token
                 /\ HasPrefix(ErrorText(e), TxtOption \o prefix \o token \o TxtAmbiguous)
                 /\ \A i \in Indices(e.Candidates, 0) :
                       \E k \in Indices(ErrorText(e), 0) :
                           HasPrefix(From(ErrorText(e), k),
                                     <<" ", "'">> \o prefix \o At(e.Candidates, i) \o <<"'">>)
            [] e.kind = "ArgumentNotAllowedError" ->
                 /\ e.Option \in MatchedNames(token)
                 /\ ErrorText(e) = TxtOption \o prefix \o e.Option \o TxtNotAllowed
            [] e.kind = "ArgumentRequiredError" ->
                 /\ e.Option \in MatchedNames(token)
                 /\ ErrorText(e) = TxtOption \o prefix \o e.Option \o TxtRequired
            [] OTHER -> FALSE

\* The error of the last call is an error about the short option character
\* c: unrecognized, or its required argument is missing.
ShortErrorFor(c) ==
    LET e == LastCall.err
    IN /\ e.prefix = dash
       /\ e.Option = <<c>>
       /\ CASE e.kind = "UnrecognizedOptionError" ->
                 ErrorText(e) = TxtUnrecognized \o <<"-", c, "'">>
            [] e.kind = "ArgumentRequiredError" ->
                 ErrorText(e) = TxtOption \o <<"-", c>> \o TxtRequired
            [] OTHER -> FALSE

\* The errors of Getopt and GetoptLong: "--" for a "--name" element, "-W "
\* for a -W dispatch, "-" for a short option character.
ErrorsOfGetopt ==
    (ErrCall /\ ~longOnlyUsed) =>
        IF LongCall THEN LongErrorFor(argumentTerminator, LongText)
        ELSE IF WCall THEN LongErrorFor(prefixW, WText)
        ELSE ShortCall /\ ShortErrorFor(ShortChar)

\* The errors of a GetoptLongOnly call on an element "-name": "-" and the
\* name, unless the element is processed as short options (-W included).
ErrorsOfLongOnly ==
    (ErrCall /\ LongOnlyCall) =>
        IF ~FallsThrough THEN LongErrorFor(dash, OnlyText)
        ELSE IF WHasText THEN LongErrorFor(prefixW, WText)
        ELSE ShortErrorFor(ShortChar)

----------------------------------------------------------------------------
(* C28 *)

\* What New(orig, opts) or NewLong(orig, opts, longOptions) makes of the
\* parameters of the reset on record.
FreshOfReset ==
    IF reset.long THEN NewLong(orig, opts, longOptions, env, ZeroFlags)
    ELSE New(orig, opts, env, ZeroFlags)

\* C28: Reset(args, opts) or ResetLong(args, opts, longopts) called in any
\* scanner state makes the subsequent calls return exactly what they return
\* on a fresh New/NewLong with the same parameters, and leave the same Args
\* and Optind; after Reset no long options are configured.
C28_ResetIsNew ==
    reset.made =>
        /\ ~reset.long => longOptions = <<>>
        /\ results = <<>> => G = [FreshOfReset EXCEPT !.flags = flags]
        /\ ~longOnlyUsed =>
              LET a == RunAlone(FreshOfReset, Len(results))
              IN /\ results = a.results
                 /\ Args = a.g.Args
                 /\ optind = a.g.optind
        /\ (longOnlyUsed /\ Len(results) = 1) =>
              LET r == getoptInternal(FreshOfReset, TRUE)
              IN /\ results = <<Entry(FreshOfReset, r)>>
                 /\ Args = r.g.Args
                 /\ optind = r.g.optind

\* Witness of C28: Reset was called in the middle of a short-option cluster
\* and the scanner has returned options and Done since.
C28_Witness ==
    /\ reset.made /\ reset.cluster /\ ~longOnlyUsed
    /\ Len(results) >= 2
    /\ IsOpt(results[1]) /\ IsDone(Last(results))

\* Witness of C28: ResetLong was called with skipped non-options not yet
\* moved, and a long option was returned since.
C28_PendingWitness ==
    /\ reset.made /\ reset.long /\ reset.pending /\ ~reset.done /\ ~longOnlyUsed
    /\ Called /\ IsOpt(LastCall) /\ LongCall

\* Witness of C28: Reset was called after Done on a scanner that had long
\* options, and the first element, a long-option token, was scanned as
\* short option characters.
C28_DoneWitness ==
    /\ reset.made /\ ~reset.long /\ reset.done
    /\ Len(results) >= 1 /\ ~longOnlyUsed
    /\ Len(orig) >= 2
    /\ HasPrefix(At(orig, 1), argumentTerminator) /\ Len(At(orig, 1)) > 2
    /\ IsErr(results[1])

----------------------------------------------------------------------------
(* C29 *)

\* The call before the last one returned Done.
AfterDone == Len(results) >= 2 /\ IsDone(results[Len(results) - 1])

\* C29: once Getopt has returned Done, every later call on the same scanner
\* without a Reset also returns Done and leaves Optind and Args unchanged,
\* whether Done was reached at the end of the vector, at a non-option under
\* RequireOrder, or at "--".
C29_DoneIsSticky ==
    (AfterDone /\ ~longOnlyUsed) =>
        /\ IsDone(LastCall)
        /\ optind = pre.optind
        /\ Args = pre.Args

\* The call before the last one, and whether it reached its Done at "--".
DoneCall == results[Len(results) - 1]
DoneAtTerminator == DoneCall.term

\* The last call found nothing to return: no element left to examine, or
\* "--", or under RequireOrder a non-option.
NothingToReturn ==
    \/ ExaminedIndex >= Len(pre.Args)
    \/ ExaminedElement = argumentTerminator
    \/ pre.shortOptions.Ordering = RequireOrder /\ nonoption(ExaminedElement)

\* C29, amended: once Getopt has returned Done at the end of the vector or
\* at a non-option under RequireOrder, every later call without a Reset
\* also returns Done and leaves Optind and Args unchanged.  After a Done
\* reached at "--" the next call resumes the scan with the elements behind
\* the "--": it returns Done only if it finds nothing to return there.
C29_DoneIsStickyButAtTerminator ==
    (AfterDone /\ ~longOnlyUsed) =>
        IF DoneAtTerminator
        THEN ~LastCall.panic /\ (IsDone(LastCall) <=> NothingToReturn)
        ELSE /\ IsDone(LastCall)
             /\ optind = pre.optind
             /\ Args = pre.Args

\* Witness of C29: a second Done under RequireOrder at a non-option with an
\* option element behind it.
C29_Witness ==
    /\ AfterDone /\ ~longOnlyUsed /\ ~DoneAtTerminator
    /\ IsDone(LastCall)
    /\ shortOptions.Ordering = RequireOrder
    /\ optind + 1 < Len(Args)
    /\ nonoption(At(Args, optind))
    /\ ~nonoption(At(Args, optind + 1))
    /\ At(Args, optind + 1) # argumentTerminator

\* Witness of C29: a third Done at the end of a vector without "--" that
\* was permuted.
C29_EndWitness ==
    /\ AfterDone /\ ~longOnlyUsed /\ ~DoneAtTerminator
    /\ Len(results) >= 4
    /\ IsDone(results[Len(results) - 2]) /\ IsDone(LastCall)
    /\ Args # orig
    /\ optind < Len(Args)
    /\ \A i \in Indices(orig, 0) : At(orig, i) # argumentTerminator

\* Witness of C29: an option returned from behind the "--" by the call
\* after the Done.
C29_TerminatorWitness ==
    /\ AfterDone /\ ~longOnlyUsed /\ DoneAtTerminator
    /\ IsOpt(LastCall)
    /\ LastCall.opt.C # Rune1

----------------------------------------------------------------------------
(* C30 *)

\* The calls since New/Reset that returned an Opt whose Arg is a pointer
\* into Args: "arg = &g.Args[g.optind]".
ArgPointers ==
    {k \in 1..Len(results) : IsOpt(results[k]) /\ results[k].opt.Arg.ref # -1}

\* The string that the Arg returned by call k refers to now: *opt.Arg.
Deref(k) == At(Args, results[k].opt.Arg.ref)

\* C30: the argument delivered through Opt.Arg keeps denoting the option's
\* argument text after later Getopt calls on the same scanner: a later
\* in-place permutation of Args does not change the string that a
\* previously returned Arg refers to.
C30_ArgKeepsItsText ==
    ~longOnlyUsed =>
        \A k \in ArgPointers : Deref(k) = results[k].opt.Arg.s

----------------------------------------------------------------------------
(* C31 *)

\* Args holds the elements of the vector handed to New/Reset, each once:
\* src is a permutation of the original indices and every element is the
\* string that was at its original index.
ArgsIsPermutation ==
    /\ Len(Args) = Len(orig)
    /\ Len(src) = Len(orig)
    /\ {At(src, i) : i \in Indices(src, 0)} = Indices(orig, 0)
    /\ \A i \in Indices(Args, 0) : At(Args, i) = At(orig, At(src, i))

\* C31: after any sequence of Getopt/GetoptLong/GetoptLongOnly calls, Args
\* is a permutation of the original vector (no element lost, duplicated or
\* altered) and Args[0] is never moved, scanned or reported.
C31_ArgsIsPermutationOfOriginal ==
    /\ ArgsIsPermutation
    /\ Len(orig) >= 1 =>
          /\ At(src, 0) = 0
          /\ At(Args, 0) = At(orig, 0)
          /\ optind >= 1
          /\ \A k \in 1..Len(results) :
                ~results[k].panic => (0 \notin results[k].elems /\ results[k].argElem # 0)

\* Witness of C31: GetoptLongOnly calls and Getopt calls have returned
\* options and Done, and two non-options were moved behind an option.
C31_Witness ==
    /\ Called /\ IsDone(LastCall) /\ Len(results) >= 2
    /\ Len(Args) = 4
    /\ Args # orig
    /\ At(src, 1) = 3 /\ At(src, 2) = 1 /\ At(src, 3) = 2

\* Witness of C31: a vector that was permuted by GetoptLongOnly calls.
C31_LongOnlyWitness ==
    /\ longOnlyUsed /\ Called /\ ~LastCall.panic
    /\ Args # orig

----------------------------------------------------------------------------
(* C32 *)

\* The last call was made under RequireOrder or ReturnInOrder.
OrderedCall == Called /\ pre.shortOptions.Ordering # Permute

\* The non-option run [firstNonopt, lastNonopt) that a call starting on a
\* fresh element finds after "Give FIRST_NONOPT & LAST_NONOPT rational
\* values" is empty: exchange is not entered.
NoNonoptionRun ==
    clampNonopts(pre).firstNonopt = clampNonopts(pre).lastNonopt

\* C32: under RequireOrder and ReturnInOrder no call ever modifies Args:
\* exchange is never entered with a non-empty non-option run in these
\* modes, including when "--" is processed and when Getopt is called again
\* after Done.
C32_OrderedModesLeaveArgs ==
    OrderedCall =>
        /\ Args = pre.Args
        /\ Args = orig
        /\ pre.nextChar = <<>> => NoNonoptionRun

\* Witness of C32: under ReturnInOrder a call made after the Done at "--",
\* with a non-option before the "--" and an element behind it.
C32_Witness ==
    /\ OrderedCall /\ AfterDone /\ DoneAtTerminator
    /\ shortOptions.Ordering = ReturnInOrder
    /\ IsOpt(results[1]) /\ results[1].opt.C = Rune1
    /\ IsOpt(LastCall)
    /\ Args = orig

\* Witness of C32: under RequireOrder the scan stopped at a non-option that
\* has an option element behind it, after an option was returned.
C32_RequireOrderWitness ==
    /\ OrderedCall /\ IsDone(LastCall)
    /\ shortOptions.Ordering = RequireOrder
    /\ Len(results) >= 2 /\ IsOpt(results[1])
    /\ optind + 1 < Len(Args)
    /\ nonoption(At(Args, optind)) /\ ~nonoption(At(Args, optind + 1))

----------------------------------------------------------------------------
(* C33 *)

\* exchange was called.
Exchanged == pre # ZeroGetopt(ZeroFlags)

\* The slice s[lo:hi]
Slice(s, lo, hi) == SubSeq(s, lo + 1, hi)

\* C33: exchange, called with firstNonopt < lastNonopt < optind, rewrites
\* Args[firstNonopt:optind] to the old Args[lastNonopt:optind] followed by
\* the old Args[firstNonopt:lastNonopt], each block in its original order,
\* leaves every element outside that range unchanged, and updates
\* firstNonopt and lastNonopt so that they bracket the moved non-option
\* block, which ends at optind.
C33_ExchangeSwapsBlocks ==
    Exchanged =>
        /\ Len(Args) = Len(pre.Args)
        /\ Slice(Args, pre.firstNonopt, pre.optind)
              = Slice(pre.Args, pre.lastNonopt, pre.optind)
                   \o Slice(pre.Args, pre.firstNonopt, pre.lastNonopt)
        /\ Slice(Args, 0, pre.firstNonopt) = Slice(pre.Args, 0, pre.firstNonopt)
        /\ Slice(Args, pre.optind, Len(Args)) = Slice(pre.Args, pre.optind, Len(Args))
        /\ optind = pre.optind
        /\ lastNonopt = optind
        /\ firstNonopt = pre.firstNonopt + (pre.optind - pre.lastNonopt)
        /\ Slice(Args, firstNonopt, lastNonopt)
              = Slice(pre.Args, pre.firstNonopt, pre.lastNonopt)

\* Witness of C33: three non-options were exchanged with two option
\* elements, with elements before and behind the range.
C33_Witness ==
    /\ Exchanged
    /\ pre.firstNonopt = 2 /\ pre.lastNonopt = 5 /\ pre.optind = 7
    /\ Len(Args) = 7
    /\ firstNonopt = 4 /\ lastNonopt = 7

\* Witness of C33: two non-options were exchanged with three option
\* elements.
C33_LongerTopWitness ==
    /\ Exchanged
    /\ pre.firstNonopt = 1 /\ pre.lastNonopt = 3 /\ pre.optind = 6
    /\ firstNonopt = 4 /\ lastNonopt = 6

----------------------------------------------------------------------------
(* C34 *)

\* C34: after New/NewLong and after every call, 1 <= Optind() <= len(Args),
\* so that Args[Optind():] is a valid slice expression, including for an
\* empty argument vector and after error results.
C34_OptindWithinArgs ==
    /\ 1 <= optind
    /\ optind <= Len(Args)
    /\ ~remainingOf(G).panic

\* The same for the vectors that have an element 0.
C34_OptindWithinNonEmptyArgs == Len(orig) >= 1 => C34_OptindWithinArgs

\* Iterate over an empty vector: the one call returns Done and the
\* assignment of *remaining panics.
C34_IterateOfEmptyPanics ==
    /\ orig = <<>>
    /\ Len(iter.calls) = 1
    /\ IsDone(iter.calls[1])
    /\ iter.state = "panic"

----------------------------------------------------------------------------
(* C35 *)

\* The consumer left the loop of the iterator early.
Broken == iter.state = "broken"

\* The original indices of the elements that *remaining holds, the slice
\* Args[Optind():] of the iterator's scanner.
RemainingElems == {At(iter.g.src, k) : k \in Indices(iter.g.Args, iter.g.optind)}

\* The original indices of the elements behind the program name that no
\* call of the iterator reported as an option, as its argument or as an
\* error.
Unreported == {i \in Indices(orig, 1) : i \notin IterConsumed}

\* C35: when the consumer stops the loop early, *remaining is still set and
\* holds every element of Args that has not been reported as an option or
\* as an option's argument, the non-options already skipped under Permute
\* but not yet moved behind the options included.
C35_RemainingAfterBreak ==
    Broken =>
        /\ ~iter.remaining.nil
        /\ iter.remaining.s = From(iter.g.Args, iter.g.optind)
        /\ Unreported \subseteq RemainingElems

\* What does hold after an early stop: *remaining is set, to Args[Optind():],
\* and the elements it lacks are the skipped non-options between firstNonopt
\* and lastNonopt.
C35_RemainingLacksSkipped ==
    (Broken /\ Len(orig) >= 1) =>
        /\ ~iter.remaining.nil
        /\ iter.remaining.s = From(iter.g.Args, iter.g.optind)
        /\ Unreported \ RemainingElems
              \subseteq {At(iter.g.src, k) : k \in iter.g.firstNonopt..(iter.g.lastNonopt - 1)}

----------------------------------------------------------------------------
(* C36 *)

\* The last call returned, and it started on a fresh element that is
\* exactly "-".
DashCall ==
    /\ Called
    /\ ~LastCall.panic
    /\ pre.nextChar = <<>>
    /\ pre.optind < Len(pre.Args)
    /\ At(pre.Args, pre.optind) = dash

\* '-' is an option character of the short spec.
DashRegistered == HasOpt(pre.shortOptions, "-")

\* Where the element that the last call started on is now.
DashPosition == CHOOSE k \in Indices(src, 0) : At(src, k) = At(pre.src, pre.optind)

\* The last call treated the element it started on as a non-option: under
\* ReturnInOrder it returned it as the argument of option 1, under
\* RequireOrder it returned Done without stepping over it, under Permute it
\* stepped over it without reporting it, and the element is among the
\* skipped non-options, or behind optind once the call has returned Done.
TreatedAsNonoption ==
    IF pre.shortOptions.Ordering = ReturnInOrder
    THEN /\ LastCall.opt = Opt(Rune1, ArgRef(pre.Args, pre.optind), 0)
         /\ LastCall.err.nil
         /\ optind = pre.optind + 1
    ELSE IF pre.shortOptions.Ordering = RequireOrder
    THEN /\ IsDone(LastCall)
         /\ optind = pre.optind
         /\ Args = pre.Args
    ELSE /\ At(pre.src, pre.optind) \notin LastCall.elems
         /\ LastCall.argElem # At(pre.src, pre.optind)
         /\ At(Args, DashPosition) = dash
         /\ IF IsDone(LastCall) THEN DashPosition >= optind
            ELSE firstNonopt <= DashPosition /\ DashPosition < lastNonopt

\* C36 as claimed: an element that is exactly "-" is treated as a
\* non-option exactly when '-' is not a registered option character.
C36_DashIsNonoptionUnlessRegistered ==
    DashCall => (TreatedAsNonoption <=> ~DashRegistered)

\* C36, amended: an element that is exactly "-" is treated as a non-option
\* whether or not '-' is a registered option character.
C36_DashIsNonoption ==
    DashCall => TreatedAsNonoption

\* Witness of C36: with '-' registered, under Permute, "-" was stepped over
\* and is the operand behind optind at Done.
C36_Witness ==
    /\ DashCall /\ DashRegistered
    /\ pre.shortOptions.Ordering = Permute
    /\ Len(results) = 2 /\ IsDone(LastCall)
    /\ results[1].opt = Opt("a", NilArg, 0)
    /\ optind = 2 /\ At(Args, 2) = dash

\* Witness of C36: with '-' registered, under ReturnInOrder.
C36_ReturnInOrderWitness ==
    /\ DashCall /\ DashRegistered
    /\ pre.shortOptions.Ordering = ReturnInOrder
    /\ LastCall.opt.C = Rune1

\* Witness of C36: with '-' registered, under RequireOrder.
C36_RequireOrderWitness ==
    /\ DashCall /\ DashRegistered
    /\ pre.shortOptions.Ordering = RequireOrder
    /\ IsDone(LastCall)

\* Witness of C36: '-' not registered.
C36_UnregisteredWitness ==
    /\ DashCall /\ ~DashRegistered
    /\ Len(results) = 1 /\ IsOpt(LastCall)

----------------------------------------------------------------------------
(* C37 *)

\* The last call met, as the last element of Args, a long option that
\* requires an argument and has no '='.
MissingLongArgument ==
    /\ LongCall
    /\ LongEq = -1
    /\ ExaminedIndex + 1 = Len(pre.Args)
    /\ \E i \in Indices(pre.longOptions, 0) :
          Resolved(i) /\ At(pre.longOptions, i).HasArg = RequiredArgument

\* C37 as claimed: then the call returns ArgumentRequiredError and the step
\* over the option element is taken back: Optind after the call is Optind
\* before it.
C37_MissingArgumentRollsBack ==
    MissingLongArgument =>
        /\ LastCall.opt.nil
        /\ LastCall.err.kind = "ArgumentRequiredError"
        /\ optind = pre.optind

\* C37, amended: then the call returns ArgumentRequiredError and the step
\* over the option element stays: Optind after the call is behind the
\* element, which is len(Args).
C37_MissingArgumentConsumesOption ==
    MissingLongArgument =>
        /\ LastCall.opt.nil
        /\ LastCall.err.kind = "ArgumentRequiredError"
        /\ optind = ExaminedIndex + 1
        /\ optind = Len(Args)
        /\ optind > pre.optind
        /\ nextChar = <<>>

\* Witness of C37: "--ra" as the last element, behind a skipped non-option.
C37_Witness ==
    /\ MissingLongArgument
    /\ LastCall.err = ArgumentRequiredError(<<"r", "a">>, argumentTerminator)
    /\ pre.optind = 1
    /\ optind = 3

\* Witness of C37: the call after the failing one returns Done.
C37_DoneWitness ==
    /\ Len(results) >= 2
    /\ results[Len(results) - 1].err.kind = "ArgumentRequiredError"
    /\ results[Len(results) - 1].err.prefix = argumentTerminator
    /\ IsDone(LastCall)

----------------------------------------------------------------------------
(* C38 *)

\* C38: every Getopt/GetoptLong/GetoptLongOnly call returns exactly one of
\* an option (non-nil Opt, nil error), an error (nil Opt, non-nil error) and
\* Done (nil, nil): the call returns, and a non-nil Opt never comes with a
\* non-nil error.
C38_OneResultPerCall ==
    Called =>
        /\ ~LastCall.panic
        /\ ~(IsOpt(LastCall) /\ IsErr(LastCall))

\* The same for the calls that return, and for all calls of a scanner that
\* GetoptLongOnly was never called on.
C38_OneResultPerReturningCall ==
    Called =>
        /\ ~(IsOpt(LastCall) /\ IsErr(LastCall))
        /\ ~longOnlyUsed => ~LastCall.panic

=============================================================================
